---------------------------- MODULE Spec2Model ----------------------------
(***************************************************************************)
(* Model of the demand/supply matching engine of backend/app:              *)
(*   api/endpoints/intents.py          create / deactivate / get matches   *)
(*   services/advanced_matching_service.py   advanced strategy             *)
(*   services/ml_matching_service.py         ML-feature strategy           *)
(*   services/matching_service.py            basic strategy                *)
(*   services/embedding_service.py           cosine similarity             *)
(*   schemas/intent_schema.py                MatchResponse                 *)
(*                                                                         *)
(* Numbers.  Component scores are integers in thousandths ("milli",        *)
(* 1000 = 1.0).  A weighted sum with weights in hundredths is therefore in *)
(* units of 1e-5; Round3 brings it back to thousandths as round(x, 3)      *)
(* does.  Quotients are floored to the unit.                               *)
(*                                                                         *)
(* Text.  A raw_query is the set of its lower-cased whitespace-separated   *)
(* words; the substring test of Python's `in` / SQL ilike is SubstrOf on   *)
(* the words of the vocabulary.  A location name is the sequence of its    *)
(* comma-separated parts.  A price string is its first numeric token and   *)
(* the unit word that follows it.                                          *)
(***************************************************************************)
EXTENDS Integers, Sequences, FiniteSets, TLC

VARIABLES
    store,      \* the intents table, in insertion (= fetch) order
    call,       \* the last operation: its inputs
    matches,    \* what the last strategy call returned
    outcome,    \* what the last HTTP request returned to its caller
    fin,        \* input of the last pure-function application
    fout,       \* its result
    vectorizer  \* ml_matching_service.vectorizer, the one TfidfVectorizer

vars == <<store, call, matches, outcome, fin, fout, vectorizer>>

---------------------------------------------------------------------------
(* Bounds of the model *)

MaxIntents == 2
MaxDay == 6
PoolLen == 13
SmallPool == 10
MaxGeneric == 6
MaxPrice == 12
MaxYearGap == 2
MaxKm == 52
DistanceUnit == 2

\* length of the embeddings of SpecSimilarity
EmbDim == 3

\* number of concurrent requests of SpecConcurrent
MaxRequests == 2

\* largest difference of two latitudes, in hundredths of a degree
MaxLatGap == 1

\* number of supplies of SpecCut
CutPool == 16

---------------------------------------------------------------------------
(* Program constants *)

Milli == 1000

W_semantic == 40
W_location == 20
W_parameters == 30
W_price == 10
AdvThreshold == 75
AdvTopK == 7
MLThreshold == 30
MLTopK == 15
DiversityMin == 5
DiversityCap == 12
DiversityOverlap == 7
BasicThreshold == 30
BasicTopK == 10

\* days from the creation of an intent to its expiry_date
ExpiryDays == 5

---------------------------------------------------------------------------
(* Generic helpers *)

Max(a, b) == IF a >= b THEN a ELSE b
Min(a, b) == IF a <= b THEN a ELSE b
Abs(a) == IF a >= 0 THEN a ELSE 0 - a

RECURSIVE ISqrtIn(_, _, _)
\* the largest r in lo..hi with r * r <= n
ISqrtIn(n, lo, hi) ==
    IF lo >= hi THEN lo
    ELSE LET mid == (lo + hi + 1) \div 2
         IN  IF mid * mid <= n THEN ISqrtIn(n, mid, hi) ELSE ISqrtIn(n, lo, mid - 1)

\* floor of the square root
ISqrt(n) == ISqrtIn(n, 0, Min(n, 46340))

RECURSIVE SumSeq(_)
SumSeq(s) == IF s = <<>> THEN 0 ELSE Head(s) + SumSeq(Tail(s))

RECURSIVE SelectSeqBy(_, _)
\* the subsequence of s at the positions in keep (order preserved)
SelectSeqBy(s, keep) ==
    IF s = <<>> THEN <<>>
    ELSE LET rest == SelectSeqBy(Tail(s), {i - 1 : i \in keep \ {1}})
         IN  IF 1 \in keep THEN <<Head(s)>> \o rest ELSE rest

Prefix(s, k) == SubSeq(s, 1, Min(k, Len(s)))

\* round(x, 3) of a value held as c units of 1/(1000 * per): to the nearest
\* thousandth, an exact half to the even neighbour
Round3(c, per) ==
    LET q == c \div per
        r == c % per
    IN  IF 2 * r > per \/ (2 * r = per /\ q % 2 = 1) THEN q + 1 ELSE q

\* the final score of a match result: the advanced strategy names it
\* composite_score, the other two combined_score
FinalScore(m) ==
    IF "combined_score" \in DOMAIN m THEN m.combined_score ELSE m.composite_score

RECURSIVE InsertDesc(_, _)
\* insert x after every element whose score is >= x's: one step of a stable
\* descending sort
InsertDesc(sorted, x) ==
    IF sorted = <<>> THEN <<x>>
    ELSE IF FinalScore(Head(sorted)) >= FinalScore(x)
         THEN <<Head(sorted)>> \o InsertDesc(Tail(sorted), x)
         ELSE <<x>> \o sorted

RECURSIVE SortDescFrom(_, _)
SortDescFrom(acc, s) ==
    IF s = <<>> THEN acc
    ELSE SortDescFrom(InsertDesc(acc, Head(s)), Tail(s))

\* SortDesc as an ascending sort followed by a reversal: descending, but
\* equal scores come out in reverse order
SortDesc_reversing(s) == SortDescFrom(<<>>, [i \in 1..Len(s) |-> s[Len(s) + 1 - i]])

\* list.sort(key=lambda x: x[score], reverse=True): descending, and equal
\* scores keep their original order
SortDesc(s) == SortDescFrom(<<>>, s)

---------------------------------------------------------------------------
(* Values of the data model *)

\* SQL NULL / Python None in a location_name column; <<>> is the empty string
NullName == <<"<null>">>
\* a missing price / budget key
NoPrice == [num |-> 0 - 1, unit |-> "<none>"]
\* a parsed intent that is a JSON array: the query interpreter's output is
\* stored as it comes (query_parser_service._merge_parsing_results)
ListIntent == "<list>"

\* b contains a as a substring (Python `a in b`, SQL ilike %a%), for the
\* words of the model's vocabulary
SubstrOf(a, b) ==
    \/ a = b
    \/ <<a, b>> \in {<<"sell", "seller">>, <<"sell", "selling">>,
                     <<"buy", "buyer">>, <<"fast", "breakfast">>,
                     <<"phone", "smartphone">>}

\* some word of the text contains kw
TextHas(text, kw) == \E w \in text : SubstrOf(kw, w)

\* the location name a occurs inside the location name b
NameIn(a, b) ==
    \/ \E i \in 1..Len(b) : \E j \in i..Len(b) : SubSeq(b, i, j) = a
    \/ Len(a) = 1 /\ \E i \in 1..Len(b) : SubstrOf(a[1], b[i])

---------------------------------------------------------------------------
(* embedding_service.py *)

Dot(u, v) == SumSeq([i \in 1..Len(u) |-> u[i] * v[i]])

\* compute_similarity with numpy present: np.dot raises ValueError on
\* vectors of different length, and only ImportError is caught.
\* The result is [ok, v]: ok = FALSE when the call raises.
compute_similarity(e1, e2) ==
    IF Len(e1) # Len(e2) THEN [ok |-> FALSE, v |-> 0]
    ELSE LET n1 == ISqrt(Dot(e1, e1))
             n2 == ISqrt(Dot(e2, e2))
         IN  IF n1 = 0 \/ n2 = 0 THEN [ok |-> TRUE, v |-> 0]
             ELSE [ok |-> TRUE, v |-> (Dot(e1, e2) * Milli) \div (n1 * n2)]

---------------------------------------------------------------------------
(* advanced_matching_service.py *)

INTENT_INVERSIONS ==
    [v \in {"buy", "sell", "rent", "rent_out", "looking", "offering",
            "need", "provide", "want", "have"} |->
        CASE v = "buy" -> "sell"
          [] v = "sell" -> "buy"
          [] v = "rent" -> "rent_out"
          [] v = "rent_out" -> "rent"
          [] v = "looking" -> "offering"
          [] v = "offering" -> "looking"
          [] v = "need" -> "provide"
          [] v = "provide" -> "need"
          [] v = "want" -> "have"
          [] v = "have" -> "want"]

\* InverseIntent without the table: every verb is its own inverse
InverseIntent_same(v) == v

\* INTENT_INVERSIONS.get(user_intent, user_intent)
InverseIntent(v) == IF v \in DOMAIN INTENT_INVERSIONS THEN INTENT_INVERSIONS[v] ELSE v

\* the keyword table of _extract_intent_from_query, in dict order; a phrase
\* is the set of its words
IntentKeywords ==
    << <<"buy", {{"buy"}, {"buying"}, {"purchase"}, {"looking", "for"},
                 {"want", "to", "buy"}, {"need"}}>>,
       <<"sell", {{"sell"}, {"selling"}, {"sale"}, {"for", "sale"}, {"offering"}}>>,
       <<"rent", {{"rent"}, {"renting"}, {"lease"}, {"for", "rent"}}>>,
       <<"rent_out", {{"rent", "out"}, {"renting", "out"}, {"available", "for", "rent"}}>>,
       <<"looking", {{"looking"}, {"searching"}, {"seeking"}, {"find"}}>>,
       <<"offering", {{"offering"}, {"providing"}, {"available"}}>> >>

RECURSIVE FirstIntent(_, _)
FirstIntent(table, text) ==
    IF table = <<>> THEN "looking"
    ELSE IF \E phrase \in Head(table)[2] : \A w \in phrase : TextHas(text, w)
         THEN Head(table)[1]
         ELSE FirstIntent(Tail(table), text)

_extract_intent_from_query(text) == FirstIntent(IntentKeywords, text)

\* _extract_parameters: the parameter set of an intent row
_extract_parameters(d) ==
    LET p == d.parsed_data
    IN  [intent |-> IF p.intent # "" THEN p.intent
                    ELSE _extract_intent_from_query(d.raw_query),
         category |-> IF p.category # "" THEN p.category ELSE d.category,
         sub_category |-> p.sub_category,
         brand |-> p.brand,
         model |-> p.model,
         year |-> p.year,
         fuel_type |-> p.fuel_type,
         price |-> p.price]

\* _extract_city: the text after the last comma, or the whole name
_extract_city(name) == IF name = <<>> THEN "" ELSE name[Len(name)]

\* _calculate_location_score, name mode
NameLocationScore(u, m) ==
    IF u \in {<<>>, NullName} \/ m \in {<<>>, NullName} THEN 500
    ELSE IF u = m THEN 1000
    ELSE IF NameIn(u, m) \/ NameIn(m, u) THEN 800
    ELSE IF _extract_city(u) # "" /\ _extract_city(u) = _extract_city(m) THEN 600
    ELSE 200

\* a distance of km kilometres; distances are held in 1/DistanceUnit km
Km(km) == km * DistanceUnit

\* the coordinate mode with the band tests written < instead of <=
CoordLocationScore_open(distance) ==
    IF distance < Km(10) THEN 1000
    ELSE IF distance < Km(20) THEN 800
    ELSE IF distance < Km(50) THEN 500
    ELSE 200

\* _calculate_location_score, coordinate mode: the bands of the distance
CoordLocationScore(distance) ==
    IF distance <= Km(10) THEN 1000
    ELSE IF distance <= Km(20) THEN 800
    ELSE IF distance <= Km(50) THEN 500
    ELSE 200

\* A geometry text: none (NULL; create_intent stores none), "POINT(lng lat)"
\* with the latitude in hundredths of a degree, a text that holds no
\* POINT(...), or a POINT(...) whose content float() rejects.  The points of
\* the model lie on one meridian.
NoGeometry == [kind |-> "none", lat |-> 0]
Point(lat) == [kind |-> "point", lat |-> lat]
HexGeometry == [kind |-> "hex", lat |-> 0]
BadPoint == [kind |-> "badpoint", lat |-> 0]

\* _calculate_distance with a default of 0 km
_calculate_distance_near(location1, location2) ==
    IF location1.kind # "point" \/ location2.kind # "point" THEN 0
    ELSE (Abs(location1.lat - location2.lat) * 111195 * DistanceUnit) \div 100000

\* _calculate_distance: 50.0 when a text holds no POINT(...) or float()
\* raises; else the haversine distance, which on a meridian is R times the
\* difference of the latitudes in radians (111.195 km per degree)
_calculate_distance(location1, location2) ==
    IF location1.kind # "point" \/ location2.kind # "point" THEN Km(50)
    ELSE (Abs(location1.lat - location2.lat) * 111195 * DistanceUnit) \div 100000

\* _calculate_location_score: the coordinate mode when both geometries are
\* given, else the name mode
_calculate_location_score(u_name, m_name, user_coords, match_coords) ==
    IF user_coords # NoGeometry /\ match_coords # NoGeometry
    THEN CoordLocationScore(_calculate_distance(user_coords, match_coords))
    ELSE NameLocationScore(u_name, m_name)

\* the attribute weights of _calculate_parameter_overlap, in hundredths
param_weights ==
    << <<"category", 30>>, <<"sub_category", 20>>, <<"brand", 20>>,
       <<"model", 15>>, <<"year", 10>>, <<"fuel_type", 5>> >>

\* a falsy attribute value: None or "" (0 for the year, held as a number)
Falsy(param, x) == IF param = "year" THEN x = 0 ELSE x = ""

\* ParamAward with the partial match tried for the year as well
ParamAward_yearpartial(param, weight, uv, mv) ==
    IF uv = mv THEN weight * 10
    ELSE IF param = "year" /\ Abs(uv - mv) <= 1 THEN weight * 8
    ELSE IF param = "year"
         THEN (IF (uv = 20 /\ mv >= 2000) \/ (mv = 20 /\ uv >= 2000)
               THEN weight * 6 ELSE 0)
         ELSE IF SubstrOf(uv, mv) \/ SubstrOf(mv, uv) THEN weight * 6 ELSE 0

\* what one attribute adds to overlap_score, in thousandths of weight units
ParamAward(param, weight, uv, mv) ==
    IF uv = mv THEN weight * 10
    ELSE IF param = "year"
         THEN (IF Abs(uv - mv) <= 1 THEN weight * 8 ELSE 0)
         ELSE IF SubstrOf(uv, mv) \/ SubstrOf(mv, uv) THEN weight * 6 ELSE 0

\* _calculate_parameter_overlap with the normalisation left out when nothing
\* is comparable: 0 instead of the neutral 0.5
_calculate_parameter_overlap_zero(up, mp) ==
    LET both == {i \in 1..Len(param_weights) :
                    /\ ~Falsy(param_weights[i][1], up[param_weights[i][1]])
                    /\ ~Falsy(param_weights[i][1], mp[param_weights[i][1]])}
        total == SumSeq([i \in 1..Len(param_weights) |->
                    IF i \in both THEN param_weights[i][2] ELSE 0])
        overlap == SumSeq([i \in 1..Len(param_weights) |->
                    IF i \in both
                    THEN ParamAward(param_weights[i][1], param_weights[i][2],
                                    up[param_weights[i][1]], mp[param_weights[i][1]])
                    ELSE 0])
    IN  IF total > 0 THEN (overlap * 100) \div total ELSE 0

_calculate_parameter_overlap(up, mp) ==
    LET both == {i \in 1..Len(param_weights) :
                    /\ ~Falsy(param_weights[i][1], up[param_weights[i][1]])
                    /\ ~Falsy(param_weights[i][1], mp[param_weights[i][1]])}
        total == SumSeq([i \in 1..Len(param_weights) |->
                    IF i \in both THEN param_weights[i][2] ELSE 0])
        overlap == SumSeq([i \in 1..Len(param_weights) |->
                    IF i \in both
                    THEN ParamAward(param_weights[i][1], param_weights[i][2],
                                    up[param_weights[i][1]], mp[param_weights[i][1]])
                    ELSE 0])
    IN  IF total > 0 THEN (overlap * 100) \div total ELSE 500

\* _extract_price_value: the unit words are deleted from the string before
\* the unit tests run on it, so the first number comes back unscaled.
\* -1 stands for None (no numeric token).
_extract_price_value(p) ==
    LET stripped == [p EXCEPT !.unit = ""]
    IN  IF stripped.num < 0 THEN 0 - 1
        ELSE IF stripped.unit \in {"lakh", "lac"} THEN stripped.num * 100000
        ELSE IF stripped.unit \in {"k", "thousand"} THEN stripped.num * 1000
        ELSE stripped.num

\* PriceBand without the floor at 0 beyond the band
PriceBand_unfloored(u, m) ==
    LET price_diff == Abs(u - m)
    IN  IF price_diff * 10 <= u
        THEN ((u - 10 * price_diff) * Milli) \div u
        ELSE ((u - 2 * price_diff) * Milli) \div u

\* the score of two parsed prices u (query) and m (candidate), both non-zero
PriceBand(u, m) ==
    LET price_diff == Abs(u - m)
    IN  IF price_diff * 10 <= u
        THEN ((u - 10 * price_diff) * Milli) \div u
        ELSE Max(0, ((u - 2 * price_diff) * Milli) \div u)

_calculate_price_tolerance(up, mp) ==
    IF up.price = NoPrice \/ mp.price = NoPrice THEN 500
    ELSE LET u == _extract_price_value(up.price)
             m == _extract_price_value(mp.price)
         IN  IF u > 0 /\ m > 0 THEN PriceBand(u, m) ELSE 500

\* _calculate_composite_score, in units of 1e-5
_calculate_composite_score(scores) ==
      scores.semantic_similarity * W_semantic
    + scores.location_proximity * W_location
    + scores.parameter_overlap * W_parameters
    + scores.price_tolerance * W_price

\* _calculate_match_scores: [ok, scores]; ok = FALSE when it raises
_calculate_match_scores(user_intent, match, user_params) ==
    LET both == user_intent.embedding # <<>> /\ match.embedding # <<>>
        sim == IF both THEN compute_similarity(user_intent.embedding, match.embedding)
               ELSE [ok |-> TRUE, v |-> 0]
        match_params == _extract_parameters(match)
    IN  [ok |-> sim.ok,
         scores |-> [semantic_similarity |-> sim.v,
                     location_proximity |->
                         _calculate_location_score(user_intent.location_name,
                                                   match.location_name,
                                                   user_intent.location,
                                                   match.location),
                     parameter_overlap |->
                         _calculate_parameter_overlap(user_params, match_params),
                     price_tolerance |->
                         _calculate_price_tolerance(user_params, match_params)]]

_format_match_result(match, scores, composite_score) ==
    [intent_id |-> match.intent_id,
     user_id |-> match.user_id,
     location_name |-> match.location_name,
     raw_query |-> match.raw_query,
     category |-> match.category,
     post_type |-> match.post_type,
     scores |-> [semantic |-> scores.semantic_similarity,
                 location |-> scores.location_proximity,
                 parameters |-> scores.parameter_overlap,
                 price |-> scores.price_tolerance],
     composite_score |-> Round3(composite_score, 100),
     created_at |-> match.created_at,
     parsed_data |-> match.parsed_data]

\* the rows the advanced strategy's query selects, in fetch order
AdvancedFetch(intent_data, rows) ==
    LET params == _extract_parameters(intent_data)
        opposite_intent == InverseIntent(params.intent)
    IN  SelectSeq(rows, LAMBDA r :
            /\ r.is_active
            /\ (params.category # "" => r.category = params.category)
            /\ (opposite_intent # "" =>
                    \/ TextHas(r.raw_query, opposite_intent)
                    \/ r.parsed_data.intent = opposite_intent))

\* AdvancedAccepts with the threshold test written > instead of >=
AdvancedAccepts_strict(intent_data, match) ==
    LET r == _calculate_match_scores(intent_data, match, _extract_parameters(intent_data))
    IN  /\ match.user_id # intent_data.user_id
        /\ r.ok
        /\ _calculate_composite_score(r.scores) > AdvThreshold * Milli

\* whether the loop of find_advanced_matches appends this row
AdvancedAccepts(intent_data, match) ==
    LET r == _calculate_match_scores(intent_data, match, _extract_parameters(intent_data))
    IN  /\ match.user_id # intent_data.user_id
        /\ r.ok
        /\ _calculate_composite_score(r.scores) >= AdvThreshold * Milli

AdvancedResult(intent_data, match) ==
    LET r == _calculate_match_scores(intent_data, match, _extract_parameters(intent_data))
    IN  _format_match_result(match, r.scores, _calculate_composite_score(r.scores))

\* find_advanced_matches with a cut relative to the best candidate of the
\* pool: a result is kept only within 10% of the highest composite score
find_advanced_matches_relative(intent_data, rows, fetch_fails) ==
    IF _extract_parameters(intent_data).intent = ListIntent
    THEN [raised |-> TRUE, list |-> <<>>]
    ELSE IF fetch_fails THEN [raised |-> FALSE, list |-> <<>>]
    ELSE LET data == AdvancedFetch(intent_data, rows)
             accepted == SelectSeq(data, LAMBDA m : AdvancedAccepts(intent_data, m))
             sorted == SortDesc([i \in 1..Len(accepted) |->
                                    AdvancedResult(intent_data, accepted[i])])
             close == SelectSeq(sorted, LAMBDA m :
                          m.composite_score * 10 >= sorted[1].composite_score * 9)
         IN  [raised |-> FALSE, list |-> Prefix(close, AdvTopK)]

\* AdvancedMatchingService.find_advanced_matches: [raised, list].
\* INTENT_INVERSIONS.get of an unhashable intent raises outside the try; a
\* failing store query is caught inside it and gives [].
find_advanced_matches(intent_data, rows, fetch_fails) ==
    IF _extract_parameters(intent_data).intent = ListIntent
    THEN [raised |-> TRUE, list |-> <<>>]
    ELSE IF fetch_fails THEN [raised |-> FALSE, list |-> <<>>]
    ELSE LET data == AdvancedFetch(intent_data, rows)
             accepted == SelectSeq(data, LAMBDA m : AdvancedAccepts(intent_data, m))
             matches_with_scores ==
                 [i \in 1..Len(accepted) |-> AdvancedResult(intent_data, accepted[i])]
         IN  [raised |-> FALSE,
              list |-> Prefix(SortDesc(matches_with_scores), AdvTopK)]

---------------------------------------------------------------------------
(* ml_matching_service.py *)

OppositePostType(post_type) == IF post_type = "demand" THEN "supply" ELSE "demand"

\* the rows selected by the query of the ML-feature and of the basic strategy
OppositeFetch(intent_data, rows) ==
    SelectSeq(rows, LAMBDA r :
        /\ r.post_type = OppositePostType(intent_data.post_type)
        /\ r.category = intent_data.category
        /\ r.is_active)

\* overlap / total of two word sets, in thousandths; `empty` when both are empty
WordOverlap(a, b, empty) ==
    IF a \union b = {} THEN empty
    ELSE (Cardinality(a \intersect b) * Milli) \div Cardinality(a \union b)

\* _compute_text_similarities, row 0: the similarity of the query text to one
\* candidate text.  The word-overlap ratio of the function's own fallback
\* stands for the vectorizer's cosine as well: both are 1 on equal word sets,
\* 0 on disjoint ones and lie in [0, 1].
TextSimilarity(user_query, match_text) == WordOverlap(user_query, match_text, 0)

\* TfidfVectorizer(max_features=1000, stop_words='english', ngram_range=(1, 2))
\* before its first fit.  idf_ maps a term to <<n, df>>, the number of texts
\* of the fit and the number of them holding the term, of which the weight
\* ln((1 + n) / (1 + df)) + 1 is a function.
Unfitted == [fitted |-> FALSE, vocabulary_ |-> {}, idf_ |-> <<>>]

\* words of the model's vocabulary that are in the 'english' stop list
english_stop_words == {"the", "in", "for"}

\* the terms of a text: its tokens of two or more letters that are not stop
\* words (the bigrams of ngram_range follow the unigrams and are left out;
\* max_features is far above the size of a corpus of the model)
Terms(text) == {w \in text : Len(w) >= 2 /\ w \notin english_stop_words}

\* what fit leaves in the vectorizer
Fit(texts) ==
    LET vocab == UNION {Terms(texts[i]) : i \in 1..Len(texts)}
    IN  [fitted |-> TRUE,
         vocabulary_ |-> vocab,
         idf_ |-> [t \in vocab |->
                     <<Len(texts), Cardinality({i \in 1..Len(texts) : t \in texts[i]})>>]]

\* the rows of the document-term matrix: for each text its terms of the
\* vocabulary with their idf
Transform(v, texts) ==
    [i \in 1..Len(texts) |-> [t \in Terms(texts[i]) \intersect v.vocabulary_ |-> v.idf_[t]]]

\* fit_transform that keeps the vocabulary of an earlier fit
fit_transform_stale(v, texts) ==
    IF v.fitted
    THEN [raises |-> FALSE, vectorizer |-> v, tfidf_matrix |-> Transform(v, texts)]
    ELSE IF UNION {Terms(texts[i]) : i \in 1..Len(texts)} = {}
    THEN [raises |-> TRUE, vectorizer |-> v, tfidf_matrix |-> <<>>]
    ELSE [raises |-> FALSE, vectorizer |-> Fit(texts),
          tfidf_matrix |-> Transform(Fit(texts), texts)]

\* self.vectorizer.fit_transform(texts): the vocabulary and the idf are
\* learnt anew from texts, whatever the vectorizer held; an empty vocabulary
\* raises ValueError before anything is stored
fit_transform(v, texts) ==
    IF UNION {Terms(texts[i]) : i \in 1..Len(texts)} = {}
    THEN [raises |-> TRUE, vectorizer |-> v, tfidf_matrix |-> <<>>]
    ELSE [raises |-> FALSE, vectorizer |-> Fit(texts),
          tfidf_matrix |-> Transform(Fit(texts), texts)]

\* _compute_text_similarities(texts) on the vectorizer v: the vectorizer
\* afterwards and the similarities, which are the cosines of the rows of
\* tfidf_matrix or, when fit_transform raised, the word-overlap ratios
_compute_text_similarities(v, texts) ==
    LET r == fit_transform(v, texts)
    IN  [vectorizer |-> r.vectorizer,
         similarities |->
            IF r.raises
            THEN [kind |-> "overlap",
                  rows |-> [i \in 1..Len(texts) |-> [j \in 1..Len(texts) |->
                              IF i = j THEN 0 ELSE WordOverlap(texts[i], texts[j], 0)]]]
            ELSE [kind |-> "tfidf", rows |-> r.tfidf_matrix]]

RECURSIVE CharCount(_)
\* len(text): the letters of the words and the blanks between them
CharCount(text) ==
    IF text = {} THEN 0 - 1
    ELSE LET w == CHOOSE x \in text : TRUE
         IN  Len(w) + 1 + CharCount(text \ {w})

Categories == <<"product", "service", "social", "travel", "general">>

\* _extract_feature_vector, every entry doubled (the default profile
\* features are 0.5)
_extract_feature_vector(d) ==
    <<2 * Cardinality(d.raw_query), 2 * Max(0, CharCount(d.raw_query)), 0, 0,
      2 * Cardinality(d.parsed_data.keywords), 0, 2 * Len(d.parsed_data.prices),
      1, 1, 1, 1, 1>>
    \o [i \in 1..5 |-> IF Categories[i] = d.category THEN 2 ELSE 0]
    \o <<0, 0, 0>>

\* cosine_similarity of two feature vectors with entries >= 0
FeatureSimilarity(u, m) ==
    LET d == ISqrt(Dot(u, u) * Dot(m, m))
    IN  IF d = 0 THEN 0 ELSE Min(Milli, (Dot(u, m) * Milli) \div d)

city_groups ==
    << {"bangalore", "whitefield", "electronic city", "koramangala"},
       {"mumbai", "pune", "thane", "navi mumbai"},
       {"delhi", "gurgaon", "noida", "faridabad"},
       {"hyderabad", "secunderabad", "cyberabad"},
       {"chennai", "tambaram", "velachery"} >>

\* the first metro group one of whose cities occurs in the name; 0 for none
CityGroup(name) ==
    LET hits == {g \in 1..Len(city_groups) :
                    \E city \in city_groups[g] :
                        \E i \in 1..Len(name) : SubstrOf(city, name[i])}
    IN  IF hits = {} THEN 0 ELSE CHOOSE g \in hits : \A h \in hits : g <= h

\* _compute_location_scores, one candidate.  (.lower() of a None name raises:
\* see MLRaises.)
MLLocationScore(user_location, match_location) ==
    IF user_location = match_location THEN 1000
    ELSE IF CityGroup(user_location) # 0
         THEN (IF CityGroup(match_location) = CityGroup(user_location) THEN 800 ELSE 300)
         ELSE 400

\* float(p.replace('k','000').replace('L','00000').replace('₹','')):
\* -1 when float() raises
MLPriceNum(p) ==
    IF p.unit = "" THEN p.num
    ELSE IF p.unit = "k" THEN p.num * 1000
    ELSE 0 - 1

\* the price part of _compute_intent_compatibility, in thousandths
MLPriceScore(user_prices, match_prices) ==
    LET un == SelectSeq(user_prices, LAMBDA p : p.num >= 0)
        mn == SelectSeq(match_prices, LAMBDA p : p.num >= 0)
        uv == [i \in 1..Len(un) |-> MLPriceNum(un[i])]
        mv == [i \in 1..Len(mn) |-> MLPriceNum(mn[i])]
    IN  IF user_prices = <<>> \/ match_prices = <<>> THEN 500
        ELSE IF \E i \in 1..Len(uv) : uv[i] < 0 THEN 500
        ELSE IF \E i \in 1..Len(mv) : mv[i] < 0 THEN 500
        ELSE IF un = <<>> \/ mn = <<>> THEN 500
        ELSE LET user_avg == SumSeq(uv) \div Len(uv)
                 match_avg == SumSeq(mv) \div Len(mv)
                 top == Max(user_avg, match_avg)
             IN  IF top = 0 THEN 0
                 ELSE Max(0, ((top - Abs(user_avg - match_avg)) * Milli) \div top)

\* _compute_intent_compatibility, one candidate, in units of 1e-4
MLIntentScore(user_parsed, match_parsed) ==
      WordOverlap(user_parsed.keywords, match_parsed.keywords, 500) * 7
    + MLPriceScore(user_parsed.prices, match_parsed.prices) * 3

urgency_keywords == {"urgent", "asap", "immediate", "quickly", "fast", "emergency"}

IsUrgent(text) == \E k \in urgency_keywords : TextHas(text, k)

\* _compute_temporal_compatibility, one candidate, in units of 1e-4.
\* A timestamp is <<day>>, or <<>> when fromisoformat cannot parse it;
\* current_time is the serving host's clock.
MLTemporalScore(intent_data, match, current_time) ==
    LET user_created == intent_data.created_at[1]
        match_created == match.created_at[1]
        time_diff == current_time - match_created
        recency_score == Max(0, ((30 - time_diff) * Milli) \div 30)
        mutual_diff == Abs(user_created - match_created)
        mutual_score == Max(0, ((7 - mutual_diff) * Milli) \div 7)
        user_urgent == IsUrgent(intent_data.raw_query)
        match_urgent == IsUrgent(match.raw_query)
        urgency_score == IF user_urgent /\ match_urgent THEN 1000
                         ELSE IF user_urgent \/ match_urgent THEN 700 ELSE 500
    IN  recency_score * 4 + mutual_score * 3 + urgency_score * 3

\* the temporal scores of a batch: 0.6 for every candidate when any
\* timestamp of the batch fails to parse
MLTemporalOf(intent_data, data, i, current_time) ==
    IF intent_data.created_at = <<>> \/ \E j \in 1..Len(data) : data[j].created_at = <<>>
    THEN 6000
    ELSE MLTemporalScore(intent_data, data[i], current_time)

\* the component scores of candidate i of the fetched batch
MLScores(intent_data, data, i, current_time) ==
    [text_similarity |-> TextSimilarity(intent_data.raw_query, data[i].raw_query),
     feature_similarity |-> FeatureSimilarity(_extract_feature_vector(intent_data),
                                              _extract_feature_vector(data[i])),
     location_score |-> MLLocationScore(intent_data.location_name, data[i].location_name),
     intent_compatibility |-> MLIntentScore(intent_data.parsed_data, data[i].parsed_data),
     temporal_compatibility |-> MLTemporalOf(intent_data, data, i, current_time)]

\* combined_score, in units of 1e-6
MLCombined(sc) ==
      sc.text_similarity * 300
    + sc.feature_similarity * 250
    + sc.location_score * 200
    + sc.intent_compatibility * 15
    + sc.temporal_compatibility * 10

_determine_match_quality(score) ==
    IF score >= 800 THEN "excellent"
    ELSE IF score >= 650 THEN "good"
    ELSE IF score >= 500 THEN "fair"
    ELSE IF score >= 300 THEN "poor"
    ELSE "very_poor"

MLResult(match, sc) ==
    [intent_id |-> match.intent_id,
     location_name |-> match.location_name,
     raw_query |-> match.raw_query,
     category |-> match.category,
     post_type |-> match.post_type,
     text_similarity |-> sc.text_similarity,
     feature_similarity |-> sc.feature_similarity,
     location_score |-> sc.location_score,
     intent_compatibility |-> Round3(sc.intent_compatibility, 10),
     temporal_compatibility |-> Round3(sc.temporal_compatibility, 10),
     combined_score |-> Round3(MLCombined(sc), 1000),
     match_quality |-> _determine_match_quality(Round3(MLCombined(sc), 1000)),
     created_at |-> match.created_at]

\* whether the relevance filter of the ML-feature strategy lets a score pass
MLAccepts(combined) == combined > MLThreshold * 10 * Milli

\* the too-similar test of the diversity filter: overlap / total > 0.7
TooSimilar(a, b) ==
    LET total == Cardinality(a.raw_query \union b.raw_query)
        overlap == Cardinality(a.raw_query \intersect b.raw_query)
    IN  total > 0 /\ overlap * 10 > DiversityOverlap * total

RECURSIVE DiversityScan_lastonly(_, _)
\* the loop comparing a candidate with the last kept one only
DiversityScan_lastonly(diverse_matches, rest) ==
    IF rest = <<>> THEN diverse_matches
    ELSE LET match == Head(rest)
             is_diverse == ~TooSimilar(match, diverse_matches[Len(diverse_matches)])
             next == IF is_diverse THEN Append(diverse_matches, match)
                     ELSE diverse_matches
         IN  IF Len(next) >= DiversityCap THEN next
             ELSE DiversityScan_lastonly(next, Tail(rest))

RECURSIVE DiversityScan(_, _)
\* the loop of _apply_diversity_filter over matches[1:]
DiversityScan(diverse_matches, rest) ==
    IF rest = <<>> THEN diverse_matches
    ELSE LET match == Head(rest)
             is_diverse == \A k \in 1..Len(diverse_matches) :
                               ~TooSimilar(match, diverse_matches[k])
             next == IF is_diverse THEN Append(diverse_matches, match)
                     ELSE diverse_matches
         IN  IF Len(next) >= DiversityCap THEN next
             ELSE DiversityScan(next, Tail(rest))

RECURSIVE DiversityScan_uncapped(_, _)
\* the loop without its stop at the cap
DiversityScan_uncapped(diverse_matches, rest) ==
    IF rest = <<>> THEN diverse_matches
    ELSE LET match == Head(rest)
             is_diverse == \A k \in 1..Len(diverse_matches) :
                               ~TooSimilar(match, diverse_matches[k])
         IN  DiversityScan_uncapped(IF is_diverse THEN Append(diverse_matches, match)
                                    ELSE diverse_matches, Tail(rest))

\* _apply_diversity_filter without the stop at the cap
_apply_diversity_filter_uncapped(ms) ==
    IF Len(ms) <= DiversityMin THEN ms
    ELSE DiversityScan_uncapped(<<Head(ms)>>, Tail(ms))

_apply_diversity_filter(ms) ==
    IF Len(ms) <= DiversityMin THEN ms
    ELSE DiversityScan(<<Head(ms)>>, Tail(ms))

---------------------------------------------------------------------------
(* matching_service.py *)

\* the location part of find_matches, in thousandths
BasicLocationScore(u, m) ==
    IF u \in {<<>>, NullName} \/ m \in {<<>>, NullName} THEN 500
    ELSE IF u = m THEN 1000
    ELSE IF NameIn(u, m) \/ NameIn(m, u) THEN 700
    ELSE 200

\* MatchingService._location_proximity_score
_location_proximity_score(distance_km) ==
    IF distance_km <= Km(5) THEN 1000
    ELSE IF distance_km <= Km(10) THEN 800
    ELSE IF distance_km <= Km(20) THEN 500
    ELSE IF distance_km <= Km(50) THEN 200
    ELSE 0

\* similarity of find_matches: [ok, v]
BasicSimilarity(intent_data, match) ==
    IF intent_data.embedding # <<>> /\ match.embedding # <<>>
    THEN compute_similarity(intent_data.embedding, match.embedding)
    ELSE [ok |-> TRUE, v |-> 500]

\* combined_score, in units of 1e-4
BasicCombined(intent_data, match) ==
      BasicSimilarity(intent_data, match).v * 7
    + BasicLocationScore(intent_data.location_name, match.location_name) * 3

BasicAccepts(intent_data, match) ==
    /\ BasicSimilarity(intent_data, match).ok
    /\ BasicCombined(intent_data, match) > BasicThreshold * 100

BasicResult(intent_data, match) ==
    [intent_id |-> match.intent_id,
     location_name |-> match.location_name,
     raw_query |-> match.raw_query,
     category |-> match.category,
     post_type |-> match.post_type,
     similarity |-> BasicSimilarity(intent_data, match).v,
     combined_score |-> Round3(BasicCombined(intent_data, match), 10),
     created_at |-> match.created_at]

\* MatchingService.find_matches: a failing store query gives []
find_matches(intent_data, rows, fetch_fails) ==
    IF fetch_fails THEN <<>>
    ELSE LET data == OppositeFetch(intent_data, rows)
             accepted == SelectSeq(data, LAMBDA m : BasicAccepts(intent_data, m))
             matches_with_scores ==
                 [i \in 1..Len(accepted) |-> BasicResult(intent_data, accepted[i])]
         IN  Prefix(SortDesc(matches_with_scores), BasicTopK)

---------------------------------------------------------------------------
(* ml_matching_service.py, the strategy *)

\* whether the try block of the ML-feature strategy raises: the store query
\* fails, or .lower() is applied to a None location name
MLRaises(intent_data, rows, fetch_fails) ==
    \/ fetch_fails
    \/ LET data == OppositeFetch(intent_data, rows)
       IN  /\ data # <<>>
           /\ \/ intent_data.location_name = NullName
              \/ \E i \in 1..Len(data) : data[i].location_name = NullName

\* final_matches of MLMatchingService.find_advanced_matches, after the sort
MLSorted(intent_data, rows, current_time) ==
    LET data == OppositeFetch(intent_data, rows)
        keep == {i \in 1..Len(data) :
                    MLAccepts(MLCombined(MLScores(intent_data, data, i, current_time)))}
        final_matches ==
            SelectSeqBy([i \in 1..Len(data) |->
                            MLResult(data[i], MLScores(intent_data, data, i, current_time))],
                        keep)
    IN  SortDesc(final_matches)

\* the try block with the cut to 15 made before the diversity filter
MLPipeline_cutfirst(intent_data, rows, current_time) ==
    _apply_diversity_filter(Prefix(MLSorted(intent_data, rows, current_time), MLTopK))

\* the try block of MLMatchingService.find_advanced_matches
MLPipeline(intent_data, rows, current_time) ==
    LET diverse_matches == _apply_diversity_filter(MLSorted(intent_data, rows, current_time))
    IN  Prefix(diverse_matches, MLTopK)

\* MLMatchingService.find_advanced_matches: on any exception,
\* _basic_fallback_matching
ml_find_advanced_matches(intent_data, rows, current_time, fetch_fails, basic_fails) ==
    IF MLRaises(intent_data, rows, fetch_fails)
    THEN find_matches(intent_data, rows, basic_fails)
    ELSE MLPipeline(intent_data, rows, current_time)

\* the vectorizer after MLMatchingService.find_advanced_matches: refitted on
\* [user_query] + match_texts once the candidates have been fetched
ml_vectorizer_after(v, intent_data, rows, fetch_fails) ==
    LET data == OppositeFetch(intent_data, rows)
        all_texts == <<intent_data.raw_query>> \o [i \in 1..Len(data) |-> data[i].raw_query]
    IN  IF fetch_fails \/ data = <<>> THEN v
        ELSE _compute_text_similarities(v, all_texts).vectorizer

---------------------------------------------------------------------------
(* schemas/intent_schema.py and api/endpoints/intents.py *)

\* MatchResponse(**match): the required fields must be present and
\* location_name must be a string
ValidMatchResponse(m) ==
    /\ "combined_score" \in DOMAIN m
    /\ m.location_name # NullName

\* line 69 of create_intent
PostTypeOf(intent) ==
    IF intent \in {"buy", "rent", "need", "looking"} THEN "demand" ELSE "supply"

NoParams == [sub_category |-> "", brand |-> "", model |-> "", year |-> 0, fuel_type |-> ""]

\* What a create request brings: the user, the raw query and location name,
\* the query interpreter's structured query, the embedding of the text, and
\* the day on the writing host's clock.
Posts ==
    << [user |-> "u1", raw_query |-> {"urgent", "iphone"}, intent |-> "buy",
        location_name |-> <<"whitefield">>, price |-> [num |-> 50, unit |-> "k"],
        embedding |-> <<3, 4>>, keywords |-> {"iphone"},
        prices |-> <<[num |-> 50, unit |-> "k"]>>, day |-> 1],
       [user |-> "u2", raw_query |-> {"urgent", "iphone"}, intent |-> "sell",
        location_name |-> <<"whitefield">>, price |-> [num |-> 45, unit |-> "k"],
        embedding |-> <<3, 4>>, keywords |-> {"iphone"},
        prices |-> <<[num |-> 50, unit |-> "k"]>>, day |-> 1],
       [user |-> "u1", raw_query |-> {"selling", "iphone", "urgent"}, intent |-> "sell",
        location_name |-> <<"whitefield", "bangalore">>, price |-> NoPrice,
        embedding |-> <<4, 3>>, keywords |-> {}, prices |-> <<>>, day |-> 0],
       [user |-> "u2", raw_query |-> {"want", "iphone"}, intent |-> "want",
        location_name |-> <<"delhi">>, price |-> NoPrice,
        embedding |-> <<3, 4>>, keywords |-> {}, prices |-> <<>>, day |-> 0],
       [user |-> "u1", raw_query |-> {"spare", "iphone"}, intent |-> "have",
        location_name |-> <<"delhi">>, price |-> NoPrice,
        embedding |-> <<3, 4>>, keywords |-> {}, prices |-> <<>>, day |-> 0],
       [user |-> "u2", raw_query |-> {"iphone"}, intent |-> ListIntent,
        location_name |-> <<"bangalore">>, price |-> NoPrice,
        embedding |-> <<4, 3>>, keywords |-> {"iphone"}, prices |-> <<>>, day |-> 0],
       [user |-> "u2", raw_query |-> {"seller", "iphone"}, intent |-> "",
        location_name |-> NullName, price |-> [num |-> 40, unit |-> "k"],
        embedding |-> <<3, 4>>, keywords |-> {}, prices |-> <<>>, day |-> 0],
       [user |-> "u2", raw_query |-> {"sofa"}, intent |-> "sell",
        location_name |-> <<"delhi">>, price |-> NoPrice,
        embedding |-> <<>>, keywords |-> {}, prices |-> <<>>, day |-> 0] >>

\* the intent_record of create_intent
IntentRecord(id, post) ==
    [intent_id |-> id,
     user_id |-> post.user,
     post_type |-> PostTypeOf(post.intent),
     category |-> "product",
     raw_query |-> post.raw_query,
     parsed_data |-> [intent |-> post.intent, category |-> "product",
                      price |-> post.price, keywords |-> post.keywords,
                      prices |-> post.prices] @@ NoParams,
     location_name |-> post.location_name,
     location |-> NoGeometry,
     embedding |-> post.embedding,
     is_active |-> TRUE,
     expiry_date |-> <<post.day + ExpiryDays>>,
     created_at |-> <<post.day>>]

\* the strategy chain of get_matches_for_intent: [attempted, list].  The
\* innermost handler (basic after the ML-feature matcher raised) is never
\* entered: the ML-feature matcher catches everything itself.
MatchChain(intent_data, rows, now, fail_adv, fail_ml, fail_basic) ==
    LET adv == find_advanced_matches(intent_data, rows, fail_adv)
    IN  IF ~adv.raised
        THEN [attempted |-> <<"advanced">>, list |-> adv.list]
        ELSE [attempted |-> <<"advanced", "ml">>,
              list |-> ml_find_advanced_matches(intent_data, rows, now,
                                                fail_ml, fail_basic)]

\* the response of get_matches_for_intent: a validation error of any match
\* is caught by the outer handler and answered with HTTP 500
MatchOutcome(ms) ==
    IF \A i \in 1..Len(ms) : ValidMatchResponse(ms[i])
    THEN [kind |-> "list", list |-> ms]
    ELSE [kind |-> "error", list |-> <<>>]

NoCall == [op |-> "none", q |-> 0, now |-> 0,
           fail_adv |-> FALSE, fail_ml |-> FALSE, fail_basic |-> FALSE]
NoOutcome == [kind |-> "none", list |-> <<>>]

Days == 0..MaxDay

---------------------------------------------------------------------------
(* The service *)

Init ==
    /\ store = <<>>
    /\ call = NoCall
    /\ matches = <<>>
    /\ outcome = NoOutcome
    /\ fin = <<>>
    /\ fout = <<>>
    /\ vectorizer = Unfitted

\* no request is being answered
Idle == call.op = "none"

\* POST /intents
CreateIntent ==
    /\ Idle
    /\ Len(store) < MaxIntents
    /\ \E k \in 1..Len(Posts) :
          store' = Append(store, IntentRecord(Len(store) + 1, Posts[k]))
    /\ call' = [NoCall EXCEPT !.op = "create"]
    /\ matches' = <<>>
    /\ outcome' = [kind |-> "intent", list |-> <<>>]
    /\ UNCHANGED <<fin, fout, vectorizer>>

\* DELETE /intents/{intent_id}
DeactivateIntent ==
    /\ Idle
    /\ \E q \in 1..Len(store), user \in {"u1", "u2"} :
          /\ call' = [NoCall EXCEPT !.op = "deactivate", !.q = q]
          /\ IF store[q].user_id = user
             THEN /\ store' = [store EXCEPT ![q].is_active = FALSE]
                  /\ outcome' = [kind |-> "message", list |-> <<>>]
             ELSE /\ store' = store
                  /\ outcome' = [kind |-> "error", list |-> <<>>]
    /\ matches' = <<>>
    /\ UNCHANGED <<fin, fout, vectorizer>>

\* GET /intents/{intent_id}/matches, by the owner of the intent
GetMatches ==
    /\ Idle
    /\ \E q \in 1..Len(store), now \in Days,
          fail_adv \in BOOLEAN, fail_ml \in BOOLEAN, fail_basic \in BOOLEAN :
          LET chain == MatchChain(store[q], store, now, fail_adv, fail_ml, fail_basic)
          IN  /\ call' = [op |-> "get_matches", q |-> q, now |-> now,
                          fail_adv |-> fail_adv, fail_ml |-> fail_ml,
                          fail_basic |-> fail_basic]
              /\ matches' = chain.list
              /\ outcome' = MatchOutcome(chain.list)
              /\ vectorizer' = IF Len(chain.attempted) > 1
                               THEN ml_vectorizer_after(vectorizer, store[q], store, fail_ml)
                               ELSE vectorizer
    /\ UNCHANGED <<store, fin, fout>>

\* advanced_matching_service.find_advanced_matches called on a stored intent
\* (the endpoint; notification_service._check_intent_for_new_matches)
CallAdvanced(qs) ==
    /\ Idle
    /\ \E q \in qs, fail \in BOOLEAN :
          /\ ~find_advanced_matches(store[q], store, fail).raised
          /\ call' = [NoCall EXCEPT !.op = "advanced", !.q = q, !.fail_adv = fail]
          /\ matches' = find_advanced_matches(store[q], store, fail).list
    /\ outcome' = NoOutcome
    /\ UNCHANGED <<store, fin, fout, vectorizer>>

\* ml_matching_service.find_advanced_matches called on a stored intent
\* (the endpoint's fallback; main_simple.test_ml_matching)
CallML(qs) ==
    /\ Idle
    /\ \E q \in qs, now \in Days, fail \in BOOLEAN, fail_basic \in BOOLEAN :
          /\ call' = [NoCall EXCEPT !.op = "ml", !.q = q, !.now = now,
                                    !.fail_ml = fail, !.fail_basic = fail_basic]
          /\ matches' = ml_find_advanced_matches(store[q], store, now, fail, fail_basic)
          /\ vectorizer' = ml_vectorizer_after(vectorizer, store[q], store, fail)
    /\ outcome' = NoOutcome
    /\ UNCHANGED <<store, fin, fout>>

\* matching_service.find_matches called on a stored intent
\* (the ML-feature matcher's fallback; tests/test_matching.py)
CallBasic(qs) ==
    /\ Idle
    /\ \E q \in qs, fail \in BOOLEAN :
          /\ call' = [NoCall EXCEPT !.op = "basic", !.q = q, !.fail_basic = fail]
          /\ matches' = find_matches(store[q], store, fail)
    /\ outcome' = NoOutcome
    /\ UNCHANGED <<store, fin, fout, vectorizer>>

\* the handler has returned its answer
Return ==
    /\ ~Idle
    /\ call' = NoCall
    /\ matches' = <<>>
    /\ outcome' = NoOutcome
    /\ UNCHANGED <<store, fin, fout, vectorizer>>

Stored == 1..Len(store)

Next ==
    \/ CreateIntent
    \/ DeactivateIntent
    \/ GetMatches
    \/ CallAdvanced(Stored)
    \/ CallML(Stored)
    \/ CallBasic(Stored)
    \/ Return

Spec == Init /\ [][Next]_vars

---------------------------------------------------------------------------
(* Ranking over a large candidate pool: the intents table holds one demand  *)
(* (row 1, the query) and PoolLen supplies of another user, of which the    *)
(* first MaxGeneric may carry the same generic text.                        *)

UniqueWords ==
    <<"w01", "w02", "w03", "w04", "w05", "w06", "w07", "w08",
      "w09", "w10", "w11", "w12", "w13", "w14", "w15", "w16",
      "w17", "w18">>

\* the i-th supply of the pool: one with a text of its own, or a generic one
PoolPost(i, generic) ==
    [user |-> "u2", intent |-> "sell", price |-> NoPrice,
     keywords |-> {}, prices |-> <<>>, day |-> 0,
     raw_query |-> IF generic THEN {"iphone", "sale"} ELSE {UniqueWords[i], "iphone"},
     embedding |-> IF generic /\ i % 3 = 0 THEN <<0, 1>>
                   ELSE IF generic /\ i % 3 = 1 THEN <<1, 0>>
                   ELSE IF i % 2 = 0 THEN <<4, 3>> ELSE <<3, 4>>,
     location_name |-> IF generic /\ i % 3 = 0 THEN <<"delhi">>
                       ELSE IF generic /\ i % 3 = 1 THEN <<"whitefield", "bangalore">>
                       ELSE <<"whitefield">>]

Pool(n, generics) ==
    <<IntentRecord(1, Posts[1])>> \o
    [i \in 1..n |-> IntentRecord(i + 1, PoolPost(i, i \in generics))]

InitRank ==
    /\ \E n \in {Min(SmallPool, PoolLen), PoolLen},
          generics \in SUBSET (1..Min(MaxGeneric, PoolLen)) : store = Pool(n, generics)
    /\ call = NoCall
    /\ matches = <<>>
    /\ outcome = NoOutcome
    /\ fin = <<>>
    /\ fout = <<>>
    /\ vectorizer = Unfitted

\* _apply_diversity_filter applied to the sorted final_matches of the query
ApplyDiversity ==
    /\ Idle
    /\ \E now \in Days :
          /\ call' = [NoCall EXCEPT !.op = "diversity", !.q = 1, !.now = now]
          /\ fin' = MLSorted(store[1], store, now)
          /\ fout' = _apply_diversity_filter(MLSorted(store[1], store, now))
    /\ UNCHANGED <<store, matches, outcome, vectorizer>>

ReturnRank ==
    /\ ~Idle
    /\ call' = NoCall
    /\ matches' = <<>>
    /\ fin' = <<>>
    /\ fout' = <<>>
    /\ UNCHANGED <<store, outcome, vectorizer>>

NextRank ==
    \/ CallAdvanced({1})
    \/ CallML({1})
    \/ CallBasic({1})
    \/ ApplyDiversity
    \/ ReturnRank

SpecRank == InitRank /\ [][NextRank]_vars

---------------------------------------------------------------------------
(* The ML-feature strategy on a pool longer than its final cut: one demand  *)
(* and CutPool - 1 or CutPool supplies, the first g <= MaxGeneric of which  *)
(* carry the same generic text; the last supply is near the demand or in    *)
(* another city.                                                            *)

InitCut ==
    /\ \E n \in {CutPool - 1, CutPool}, g \in 0..MaxGeneric,
          city \in {<<"whitefield">>, <<"delhi">>} :
          store = [Pool(n, 1..g) EXCEPT ![n + 1].location_name = city]
    /\ call = NoCall
    /\ matches = <<>>
    /\ outcome = NoOutcome
    /\ fin = <<>>
    /\ fout = <<>>
    /\ vectorizer = Unfitted

NextCut ==
    \/ CallML({1})
    \/ Return

SpecCut == InitCut /\ [][NextCut]_vars

---------------------------------------------------------------------------
(* The diversity filter on short and long inputs: one demand and            *)
(* DiversityMin, DiversityMin + 1 or PoolLen supplies, the first g of which *)
(* carry the same generic text.                                             *)

InitDiversity ==
    /\ \E n \in {DiversityMin, DiversityMin + 1, PoolLen} :
          \E g \in 0..Min(MaxGeneric, n) : store = Pool(n, 1..g)
    /\ call = NoCall
    /\ matches = <<>>
    /\ outcome = NoOutcome
    /\ fin = <<>>
    /\ fout = <<>>
    /\ vectorizer = Unfitted

NextDiversity ==
    \/ ApplyDiversity
    \/ ReturnRank

SpecDiversity == InitDiversity /\ [][NextDiversity]_vars

---------------------------------------------------------------------------
(* The price tolerance score as a function of two price strings *)

PriceStrings ==
    {NoPrice} \union
    [num : {0 - 1} \union {5 * k : k \in 0..MaxPrice}, unit : {"", "k"}]

InitPrice ==
    /\ store = <<>>
    /\ call = NoCall
    /\ matches = <<>>
    /\ outcome = NoOutcome
    /\ \E u \in PriceStrings, m1 \in PriceStrings, m2 \in PriceStrings :
          fin = <<u, m1, m2>>
    /\ fout = <<>>
    /\ vectorizer = Unfitted

\* _calculate_price_tolerance applied to the query price fin[1] and to each
\* of the candidate prices fin[2] and fin[3]
ApplyPriceTolerance ==
    /\ fout = <<>>
    /\ fout' = <<_calculate_price_tolerance([price |-> fin[1]], [price |-> fin[2]]),
                 _calculate_price_tolerance([price |-> fin[1]], [price |-> fin[3]])>>
    /\ UNCHANGED <<store, call, matches, outcome, fin, vectorizer>>

NextPrice == ApplyPriceTolerance

SpecPrice == InitPrice /\ [][NextPrice]_vars

---------------------------------------------------------------------------
(* The price parser as a function of one price string *)

\* price strings: a first numeric token (-1: none) followed by a unit word
UnitPriceStrings ==
    [num : {0 - 1} \union UNION {{k, 1000 * k, 100000 * k} : k \in 1..MaxPrice},
     unit : {"", "k", "thousand", "lakh", "lac"}]

InitParse ==
    /\ store = <<>>
    /\ call = NoCall
    /\ matches = <<>>
    /\ outcome = NoOutcome
    /\ \E p \in UnitPriceStrings : fin = <<p>>
    /\ fout = <<>>
    /\ vectorizer = Unfitted

\* _extract_price_value applied to the price string fin[1]
ApplyExtractPrice ==
    /\ fout = <<>>
    /\ fout' = <<_extract_price_value(fin[1])>>
    /\ UNCHANGED <<store, call, matches, outcome, fin, vectorizer>>

NextParse == ApplyExtractPrice

SpecParse == InitParse /\ [][NextParse]_vars

---------------------------------------------------------------------------
(* The parameter overlap score as a function of two parameter sets *)

\* parameter sets as _extract_parameters builds them; "" and year 0 stand
\* for an absent (None) attribute, year 20 is a year written with two digits
ParamSets ==
    [intent : {"buy"}, price : {NoPrice},
     category : {"", "product", "service"},
     sub_category : {"", "phone", "smartphone"},
     brand : {"", "apple"},
     model : {"", "x"},
     year : {0, 20} \union {2020 + k : k \in 0..MaxYearGap},
     fuel_type : {"", "petrol"}]

InitParam ==
    /\ store = <<>>
    /\ call = NoCall
    /\ matches = <<>>
    /\ outcome = NoOutcome
    /\ \E up \in ParamSets, mp \in ParamSets : fin = <<up, mp>>
    /\ fout = <<>>
    /\ vectorizer = Unfitted

\* _calculate_parameter_overlap applied to the user's and the match's
\* parameter sets fin[1] and fin[2]
ApplyParameterOverlap ==
    /\ fout = <<>>
    /\ call' = [NoCall EXCEPT !.op = "parameter_overlap"]
    /\ fout' = <<_calculate_parameter_overlap(fin[1], fin[2])>>
    /\ UNCHANGED <<store, matches, outcome, fin, vectorizer>>

NextParam == ApplyParameterOverlap

SpecParam == InitParam /\ [][NextParam]_vars

---------------------------------------------------------------------------
(* The distance-to-score mappings as functions of the distance *)

Distances == 0..Km(MaxKm)

InitDistance ==
    /\ store = <<>>
    /\ call = NoCall
    /\ matches = <<>>
    /\ outcome = NoOutcome
    /\ \E d1 \in Distances, d2 \in Distances : fin = <<d1, d2>>
    /\ fout = <<>>
    /\ vectorizer = Unfitted

\* the coordinate mode of _calculate_location_score and
\* _location_proximity_score, each applied to the distances fin[1] and fin[2]
ApplyDistanceScore ==
    /\ fout = <<>>
    /\ call' = [NoCall EXCEPT !.op = "distance_score"]
    /\ fout' = [advanced |-> <<CoordLocationScore(fin[1]), CoordLocationScore(fin[2])>>,
                basic |-> <<_location_proximity_score(fin[1]),
                            _location_proximity_score(fin[2])>>]
    /\ UNCHANGED <<store, matches, outcome, fin, vectorizer>>

NextDistance == ApplyDistanceScore

SpecDistance == InitDistance /\ [][NextDistance]_vars

(***************************************************************************)
(* The composite score as a function of the four component scores, in the  *)
(* binary64 arithmetic the interpreter uses.  A double is the pair of its  *)
(* limbs [hi, lo], hi * 2^28 + lo counting units of 2^-58; every value of  *)
(* this section is a whole number of units.  The component scores are      *)
(* quarters (0, 1, 2, 4 for 0.0, 0.25, 0.5, 1.0), whose product with a     *)
(* weight is exact; each += rounds to 53 significant bits, ties to even.   *)
(***************************************************************************)
Limb == 2^28

DZero == [hi |-> 0, lo |-> 0]

DOne == [hi |-> 2^30, lo |-> 0]

\* the doubles nearest to the literals 0.4, 0.2, 0.3 and 0.1
DoubleWeight ==
    [semantic_similarity |-> [hi |-> 429496729, lo |-> 161061280],
     location_proximity  |-> [hi |-> 214748364, lo |-> 214748368],
     parameter_overlap   |-> [hi |-> 322122547, lo |-> 53687088],
     price_tolerance     |-> [hi |-> 107374182, lo |-> 107374184]]

\* the spacing of the doubles around a value with high limb hi, in units
DUlp(hi) ==
    IF hi >= 2^30 THEN 64
    ELSE IF hi >= 2^29 THEN 32
    ELSE IF hi >= 2^28 THEN 16
    ELSE IF hi >= 2^27 THEN 8
    ELSE IF hi >= 2^26 THEN 4
    ELSE IF hi >= 2^25 THEN 2
    ELSE 1

\* round to the nearest double, ties to the even one
DRound(x) ==
    LET u == DUlp(x.hi)
        q == x.lo \div u
        r == x.lo % u
        up == 2 * r > u \/ (2 * r = u /\ q % 2 = 1)
        lo == (IF up THEN q + 1 ELSE q) * u
    IN  IF lo >= Limb THEN [hi |-> x.hi + 1, lo |-> lo - Limb]
        ELSE [hi |-> x.hi, lo |-> lo]

\* a + b of two doubles
DAdd(a, b) ==
    LET lo == a.lo + b.lo
    IN  DRound([hi |-> a.hi + b.hi + lo \div Limb, lo |-> lo % Limb])

\* score * weight for a score of quarters / 4, exact
DTimes(quarters, w) ==
    IF quarters = 0 THEN DZero
    ELSE LET k == 4 \div quarters
         IN  [hi |-> w.hi \div k, lo |-> ((w.hi % k) * Limb + w.lo) \div k]

DLeq(a, b) == a.hi < b.hi \/ (a.hi = b.hi /\ a.lo <= b.lo)

\* _calculate_composite_score with a weight of 0.5 in place of 0.4
CompositeDouble_heavy(scores) ==
    LET w == [hi |-> 2^29, lo |-> 0]
        c1 == DAdd(DZero, DTimes(scores.semantic_similarity, w))
        c2 == DAdd(c1, DTimes(scores.location_proximity, DoubleWeight.location_proximity))
        c3 == DAdd(c2, DTimes(scores.parameter_overlap, DoubleWeight.parameter_overlap))
    IN  DAdd(c3, DTimes(scores.price_tolerance, DoubleWeight.price_tolerance))

\* composite = 0.0; composite += scores[component] * weight, in the order of
\* SCORING_WEIGHTS
CompositeDouble(scores) ==
    LET c1 == DAdd(DZero, DTimes(scores.semantic_similarity,
                                 DoubleWeight.semantic_similarity))
        c2 == DAdd(c1, DTimes(scores.location_proximity, DoubleWeight.location_proximity))
        c3 == DAdd(c2, DTimes(scores.parameter_overlap, DoubleWeight.parameter_overlap))
    IN  DAdd(c3, DTimes(scores.price_tolerance, DoubleWeight.price_tolerance))

\* 0.4 + 0.2 + 0.3 + 0.1, added in the order of SCORING_WEIGHTS
WeightSumDouble ==
    DAdd(DAdd(DAdd(DAdd(DZero, DoubleWeight.semantic_similarity),
                   DoubleWeight.location_proximity),
              DoubleWeight.parameter_overlap),
         DoubleWeight.price_tolerance)

Quarters == {0, 1, 2, 4}

InitComposite ==
    /\ store = <<>>
    /\ call = NoCall
    /\ matches = <<>>
    /\ outcome = NoOutcome
    /\ \E s \in [{"semantic_similarity", "location_proximity",
                  "parameter_overlap", "price_tolerance"} -> Quarters] : fin = s
    /\ fout = <<>>
    /\ vectorizer = Unfitted

\* _calculate_composite_score applied to the component scores fin: the value
\* in decimal arithmetic and the double the interpreter computes
ApplyCompositeScore ==
    /\ fout = <<>>
    /\ call' = [NoCall EXCEPT !.op = "composite_score"]
    /\ fout' = [decimal |-> _calculate_composite_score(
                               [c \in DOMAIN fin |-> fin[c] * (Milli \div 4)]),
                double |-> CompositeDouble(fin)]
    /\ UNCHANGED <<store, matches, outcome, fin, vectorizer>>

NextComposite == ApplyCompositeScore

SpecComposite == InitComposite /\ [][NextComposite]_vars

(***************************************************************************)
(* compute_similarity as a function of two embeddings, in binary64         *)
(* arithmetic.  A natural number is the sequence of its limbs, least       *)
(* significant first, 15 bits each, the last one not zero.  A positive     *)
(* double is [m, e]: the 53-bit significand m, as limbs, times 2^e.  The   *)
(* embeddings have components 0 and 1, so that the dot products are exact  *)
(* and only the square root, the product of the norms and the quotient     *)
(* round.  (compute_similarity above is the same function in thousandths,  *)
(* exact on the embeddings of Posts, whose norms are whole numbers.)       *)
(***************************************************************************)
BigBase == 2^15

RECURSIVE BigOfNat(_)
BigOfNat(n) == IF n = 0 THEN <<>> ELSE <<n % BigBase>> \o BigOfNat(n \div BigBase)

\* the limbs s without the zeros at the top
BigTrim(s) ==
    LET nz == {i \in 1..Len(s) : s[i] # 0}
    IN  IF nz = {} THEN <<>>
        ELSE SubSeq(s, 1, CHOOSE i \in nz : \A j \in nz : j <= i)

\* a + b + c for a carry c of 0 or 1: limb i receives a carry when a lower
\* limb (or c) produces one and every limb in between passes it on
BigAddC(a, b, c) ==
    IF b = <<>> /\ c = 0 THEN a
    ELSE IF a = <<>> /\ c = 0 THEN b
    ELSE
    LET n == (IF Len(a) > Len(b) THEN Len(a) ELSE Len(b)) + 1
        t == [i \in 1..n |-> (IF i <= Len(a) THEN a[i] ELSE 0)
                              + (IF i <= Len(b) THEN b[i] ELSE 0)]
        carry == [i \in 1..n |->
                     \/ c = 1 /\ \A k \in 1..(i - 1) : t[k] = BigBase - 1
                     \/ \E j \in 1..(i - 1) :
                            /\ t[j] >= BigBase
                            /\ \A k \in (j + 1)..(i - 1) : t[k] = BigBase - 1]
    IN  BigTrim([i \in 1..n |-> (t[i] + (IF carry[i] THEN 1 ELSE 0)) % BigBase])

\* a * k + c for a limb k and a carry c of 0 or 1
BigMulSmall(a, k, c) ==
    BigAddC([i \in 1..Len(a) |-> (a[i] * k) % BigBase],
            <<0>> \o [i \in 1..Len(a) |-> (a[i] * k) \div BigBase], c)

\* a * 2^k
BigShl(a, k) ==
    LET w == k \div 15
        r == 2^(k % 15)
    IN  BigTrim([j \in 1..(Len(a) + w + 1) |->
                    (IF w < j /\ j <= Len(a) + w
                     THEN (a[j - w] * r) % BigBase ELSE 0)
                    + (IF w + 1 < j THEN (a[j - w - 1] * r) \div BigBase ELSE 0)])

\* a * b for a, b > 0, by halves of b
RECURSIVE BigMul(_, _)
BigMul(a, b) ==
    IF Len(b) = 0 THEN <<>>
    ELSE IF Len(b) = 1 THEN BigMulSmall(a, b[1], 0)
    ELSE LET h == Len(b) \div 2
             low == BigMul(a, SubSeq(b, 1, h))
             high == BigMul(a, SubSeq(b, h + 1, Len(b)))
         IN  IF high = <<>> THEN low
             ELSE BigAddC(low, BigShl(high, 15 * h), 0)

BigLeq(a, b) ==
    \/ Len(a) < Len(b)
    \/ /\ Len(a) = Len(b)
       /\ \/ a = b
          \/ \E i \in 1..Len(a) : a[i] < b[i] /\ \A j \in (i + 1)..Len(a) : a[j] = b[j]

BigPow2(k) ==
    [i \in 1..(k \div 15 + 1) |-> IF i = k \div 15 + 1 THEN 2^(k % 15) ELSE 0]

\* the number of bits of a > 0
BigBits(a) ==
    15 * (Len(a) - 1) + CHOOSE k \in 1..15 : 2^(k - 1) <= a[Len(a)] /\ a[Len(a)] < 2^k

\* st = [m, mq] holds a number m and mq = m * q (m * m when q = <<>>); the
\* result holds the largest number with mq <= p among those made of m and
\* the bits hi down to lo, the upper half of the bits settled before the
\* lower half
RECURSIVE BigQuotientBits(_, _, _, _, _)
BigQuotientBits(p, q, st, hi, lo) ==
    IF hi = lo
    THEN LET c == BigAddC(st.m, BigPow2(hi), 0)
             cq == IF q = <<>>
                   THEN BigAddC(BigAddC(st.mq, BigShl(st.m, hi + 1), 0),
                                BigPow2(2 * hi), 0)
                   ELSE BigAddC(st.mq, BigShl(q, hi), 0)
         IN  IF BigLeq(cq, p) THEN [m |-> c, mq |-> cq] ELSE st
    ELSE LET mid == (hi + lo + 1) \div 2
             upper == BigQuotientBits(p, q, st, hi, mid)
         IN  IF upper = st THEN BigQuotientBits(p, q, st, mid - 1, lo)
             ELSE BigQuotientBits(p, q, upper, mid - 1, lo)

\* [m, mq] for the largest m below 2^53 with m * q <= p (with m * m <= p
\* when q = <<>>), 0 for p = 0
BigQuotient(p, q) ==
    IF p = <<>> THEN [m |-> <<>>, mq |-> <<>>]
    ELSE BigQuotientBits(p, q, [m |-> <<>>, mq |-> <<>>], 52, 0)

\* the double after [m, e]
DSucc(m, e) ==
    LET m1 == BigAddC(m, <<>>, 1)
    IN  IF m1 = BigPow2(53) THEN [m |-> BigPow2(52), e |-> e + 1]
        ELSE [m |-> m1, e |-> e]

\* the double nearest to p / q for naturals p >= 0 and q > 0, ties to even
DQuot(p, q) ==
    IF p = <<>> THEN [m |-> <<>>, e |-> 0]
    ELSE
    LET t == BigBits(p) - BigBits(q)
        above == IF t >= 0 THEN BigLeq(BigShl(q, t), p)
                 ELSE BigLeq(q, BigShl(p, -t))
        e == IF above THEN t - 52 ELSE t - 53
        ps == IF e >= 0 THEN p ELSE BigShl(p, -e)
        qs == IF e >= 0 THEN BigShl(q, e) ELSE q
        st == BigQuotient(ps, qs)
        twice == BigShl(ps, 1)
        mid == BigAddC(BigShl(st.mq, 1), qs, 0)
        up == IF st.m[1] % 2 = 1 THEN BigLeq(mid, twice)
              ELSE mid # twice /\ BigLeq(mid, twice)
    IN  IF up THEN DSucc(st.m, e) ELSE [m |-> st.m, e |-> e]

\* the double nearest to the square root of a natural d, [<<>>, 0] for 0
DSqrt(d) ==
    IF d = <<>> THEN [m |-> <<>>, e |-> 0]
    ELSE LET s == (106 - BigBits(d)) \div 2
             ps == BigShl(d, 2 * s)
             st == BigQuotient(ps, <<>>)
             up == ~BigLeq(ps, BigAddC(st.mq, st.m, 0))
         IN  IF up THEN DSucc(st.m, -s) ELSE [m |-> st.m, e |-> -s]

\* compute_similarity on float64 arrays with one norm left out of the
\* quotient
compute_similarity_double_onenorm(e1, e2) ==
    IF Len(e1) # Len(e2) THEN [ok |-> FALSE, sign |-> 0, v |-> <<>>]
    ELSE LET dot_product == SumSeq([i \in 1..Len(e1) |-> e1[i] * e2[i]])
             s1 == SumSeq([i \in 1..Len(e1) |-> e1[i] * e1[i]])
             n == DSqrt(BigOfNat(s1))
         IN  IF n.m = <<>> \/ dot_product <= 0
             THEN [ok |-> TRUE, sign |-> 0, v |-> <<>>]
             ELSE LET r == DQuot(BigOfNat(dot_product), n.m)
                  IN  [ok |-> TRUE, sign |-> 1,
                       v |-> [m |-> r.m, e |-> r.e - n.e]]

\* compute_similarity on float64 arrays: the result is [ok, sign, v] with
\* the value sign * v (0.0 for sign = 0), ok = FALSE when np.dot raises on
\* arrays of different length
compute_similarity_double(e1, e2) ==
    IF Len(e1) # Len(e2) THEN [ok |-> FALSE, sign |-> 0, v |-> <<>>]
    ELSE LET dot_product == Dot(e1, e2)
             norm1 == DSqrt(BigOfNat(Dot(e1, e1)))
             norm2 == DSqrt(BigOfNat(Dot(e2, e2)))
         IN  IF norm1.m = <<>> \/ norm2.m = <<>> \/ dot_product = 0
             THEN [ok |-> TRUE, sign |-> 0, v |-> <<>>]
             ELSE LET p == DQuot(BigMul(norm1.m, norm2.m), <<1>>)
                      r == DQuot(BigOfNat(Abs(dot_product)), p.m)
                  IN  [ok |-> TRUE,
                       sign |-> IF dot_product < 0 THEN -1 ELSE 1,
                       v |-> [m |-> r.m,
                              e |-> r.e - (p.e + norm1.e + norm2.e)]]

Vectors == [1..EmbDim -> {0, 1}]

InitSimilarity ==
    /\ store = <<>>
    /\ call = NoCall
    /\ matches = <<>>
    /\ outcome = NoOutcome
    /\ \E a \in Vectors, b \in Vectors : fin = <<a, b>>
    /\ fout = <<>>
    /\ vectorizer = Unfitted

\* compute_similarity applied to the embeddings fin[1], fin[2] in both orders
ApplySimilarity ==
    /\ fout = <<>>
    /\ call' = [NoCall EXCEPT !.op = "similarity"]
    /\ fout' = <<compute_similarity_double(fin[1], fin[2]),
                 compute_similarity_double(fin[2], fin[1])>>
    /\ UNCHANGED <<store, matches, outcome, fin, vectorizer>>

NextSimilarity == ApplySimilarity

SpecSimilarity == InitSimilarity /\ [][NextSimilarity]_vars

---------------------------------------------------------------------------
(* The semantic score as a function of two stored embeddings of any length *)

\* embeddings of 0 to EmbDim components
StoredEmbeddings == UNION {[1..n -> {0, 1}] : n \in 0..EmbDim}

InitVectors ==
    /\ store = <<>>
    /\ call = NoCall
    /\ matches = <<>>
    /\ outcome = NoOutcome
    /\ \E a \in StoredEmbeddings, b \in StoredEmbeddings : fin = <<a, b>>
    /\ fout = <<>>
    /\ vectorizer = Unfitted

\* compute_similarity applied to the embeddings fin[1] and fin[2], and
\* _calculate_match_scores applied to a query and a candidate that carry them
ApplyMatchScores ==
    /\ fout = <<>>
    /\ call' = [NoCall EXCEPT !.op = "match_scores"]
    /\ LET user_intent == [IntentRecord(1, Posts[1]) EXCEPT !.embedding = fin[1]]
           match == [IntentRecord(2, Posts[2]) EXCEPT !.embedding = fin[2]]
       IN  fout' = <<compute_similarity(fin[1], fin[2]),
                     _calculate_match_scores(user_intent, match,
                                             _extract_parameters(user_intent))>>
    /\ UNCHANGED <<store, matches, outcome, fin, vectorizer>>

NextVectors == ApplyMatchScores

SpecVectors == InitVectors /\ [][NextVectors]_vars

(***************************************************************************)
(* Concurrent ML requests.  Every request is served by the one             *)
(* ml_matching_service object of the process and so by its one vectorizer. *)
(* call[r] is the position of request r: "received" before and "scored"    *)
(* after its call of _compute_text_similarities, "returned" when its       *)
(* handler has returned; fin[r] is its all_texts, matches[r] its local     *)
(* text_similarities, outcome[r] what it returned.  The call of            *)
(* _compute_text_similarities is one step: the function is synchronous and *)
(* the event loop runs no other handler before it returns.                 *)
(***************************************************************************)
Requests == 1..MaxRequests

CorpusTexts == {{"iphone"}, {"sofa"}, {"iphone", "sofa"}, {"the"}}

InitConcurrent ==
    /\ store = <<>>
    /\ call = [r \in Requests |-> "received"]
    /\ matches = [r \in Requests |-> <<>>]
    /\ outcome = [r \in Requests |-> <<>>]
    /\ fin \in [Requests -> CorpusTexts \X CorpusTexts]
    /\ fout = <<>>
    /\ vectorizer = Unfitted

\* text_similarities = self._compute_text_similarities(all_texts)
ComputeTextSimilarities(r) ==
    /\ call[r] = "received"
    /\ LET res == _compute_text_similarities(vectorizer, fin[r])
       IN  /\ vectorizer' = res.vectorizer
           /\ matches' = [matches EXCEPT ![r] = res.similarities]
    /\ call' = [call EXCEPT ![r] = "scored"]
    /\ UNCHANGED <<store, outcome, fin, fout>>

\* the rest of find_advanced_matches, which scores with the local
\* text_similarities
ReturnScores(r) ==
    /\ call[r] = "scored"
    /\ outcome' = [outcome EXCEPT ![r] = matches[r]]
    /\ call' = [call EXCEPT ![r] = "returned"]
    /\ UNCHANGED <<store, matches, fin, fout, vectorizer>>

NextConcurrent ==
    \E r \in Requests : ComputeTextSimilarities(r) \/ ReturnScores(r)

SpecConcurrent == InitConcurrent /\ [][NextConcurrent]_vars

(***************************************************************************)
(* Malformed fields.  The intents table holds a demand (row 1, the query)  *)
(* and a supply of another user with the same text and embedding; the      *)
(* geometry of both, the price and the timestamp of the supply are any of  *)
(* their well-formed and malformed values.                                 *)
(***************************************************************************)
Geometries == {NoGeometry, HexGeometry, BadPoint} \union {Point(1290 + k) : k \in 0..MaxLatGap}

PriceTexts == {NoPrice, [num |-> 0 - 1, unit |-> ""], [num |-> 50, unit |-> "k"]}

Timestamps == {<<>>, <<0>>, <<1>>}

InitMalformed ==
    /\ \E g1 \in Geometries, g2 \in Geometries, p \in PriceTexts, t \in Timestamps :
          store = << [IntentRecord(1, Posts[1]) EXCEPT !.location = g1],
                     [IntentRecord(2, Posts[2]) EXCEPT !.location = g2,
                                                       !.parsed_data.price = p,
                                                       !.created_at = t] >>
    /\ call = NoCall
    /\ matches = <<>>
    /\ outcome = NoOutcome
    /\ fin = <<>>
    /\ fout = <<>>
    /\ vectorizer = Unfitted

NextMalformed ==
    \/ CallAdvanced({1})
    \/ CallML({1})
    \/ Return

SpecMalformed == InitMalformed /\ [][NextMalformed]_vars

(***************************************************************************)
(* Scores around the acceptance threshold.  The intents table holds a      *)
(* demand (row 1, the query) and a supply of another user; the embeddings  *)
(* and the location names of both range over values that put the combined  *)
(* score of the basic strategy below, on and above 0.30.                   *)
(***************************************************************************)
ThresholdEmbeddings == {<<>>, <<1, 0>>, <<0, 1>>, <<3, 4>>}

ThresholdNames == {<<"whitefield">>, <<"delhi">>, <<"whitefield", "bangalore">>}

InitThreshold ==
    /\ \E e1 \in ThresholdEmbeddings, e2 \in ThresholdEmbeddings,
          n1 \in ThresholdNames, n2 \in ThresholdNames :
          store = << [IntentRecord(1, Posts[1]) EXCEPT !.embedding = e1,
                                                       !.location_name = n1],
                     [IntentRecord(2, Posts[2]) EXCEPT !.embedding = e2,
                                                       !.location_name = n2] >>
    /\ call = NoCall
    /\ matches = <<>>
    /\ outcome = NoOutcome
    /\ fin = <<>>
    /\ fout = <<>>
    /\ vectorizer = Unfitted

NextThreshold ==
    \/ CallML({1})
    \/ CallBasic({1})
    \/ Return

SpecThreshold == InitThreshold /\ [][NextThreshold]_vars

(***************************************************************************)
(* Location names.  The intents table holds a demand (row 1, the query)    *)
(* and a supply of another user with the same embedding, both without      *)
(* coordinates; the location name of each is NULL, empty or a place.       *)
(***************************************************************************)
LocationNames == {NullName, <<>>, <<"whitefield">>, <<"delhi">>}

InitNames ==
    /\ \E n1 \in LocationNames, n2 \in LocationNames :
          store = << [IntentRecord(1, Posts[1]) EXCEPT !.location = NoGeometry,
                                                       !.location_name = n1],
                     [IntentRecord(2, Posts[2]) EXCEPT !.location = NoGeometry,
                                                       !.location_name = n2] >>
    /\ call = NoCall
    /\ matches = <<>>
    /\ outcome = NoOutcome
    /\ fin = <<>>
    /\ fout = <<>>
    /\ vectorizer = Unfitted

NextNames ==
    \/ CallAdvanced({1})
    \/ CallML({1})
    \/ CallBasic({1})
    \/ Return

SpecNames == InitNames /\ [][NextNames]_vars

(***************************************************************************)
(* Intent verbs.  The intents table holds a query (row 1) and a candidate  *)
(* of another user with the same embedding and location; the interpreted   *)
(* intent verb of each is any verb of the inversion table or a verb the    *)
(* table does not have, and the candidate's text may name a verb.          *)
(***************************************************************************)
IntentVerbs == DOMAIN INTENT_INVERSIONS \union {"meet"}

InitVerbs ==
    /\ \E v1 \in IntentVerbs, v2 \in IntentVerbs, w \in {"iphone", "buy", "sell", "meet"} :
          store = << IntentRecord(1, [Posts[1] EXCEPT !.intent = v1,
                                                      !.raw_query = {"iphone"}]),
                     IntentRecord(2, [Posts[2] EXCEPT !.intent = v2,
                                                      !.raw_query = {"iphone", w}]) >>
    /\ call = NoCall
    /\ matches = <<>>
    /\ outcome = NoOutcome
    /\ fin = <<>>
    /\ fout = <<>>
    /\ vectorizer = Unfitted

NextVerbs ==
    \/ CallAdvanced({1})
    \/ Return

SpecVerbs == InitVerbs /\ [][NextVerbs]_vars

---------------------------------------------------------------------------
(* Properties *)

\* the request being answered and the stored owner of a returned candidate
Query == store[call.q]
RowOf(m) == store[m.intent_id]
Returned == {matches[i] : i \in 1..Len(matches)}
StrategyCall == call.op \in {"advanced", "ml", "basic"}

\* C1: when the advanced strategy's candidate fetch fails, the request
\* returns exactly what the ML-feature strategy alone would have produced for
\* the same inputs (an empty list if that fails too), never an error.
C1_FallbackIsMLResult ==
    (/\ call.op = "get_matches"
     /\ call.fail_adv
     /\ _extract_parameters(Query).intent # ListIntent)
    => /\ outcome.kind = "list"
       /\ outcome.list = ml_find_advanced_matches(Query, store, call.now,
                                                  call.fail_ml, call.fail_basic)

\* C2: the orchestrator answers every request, whatever the combination of
\* strategy failures, with a (possibly empty) list and never with an error.
C2_AlwaysAList ==
    call.op = "get_matches" => outcome.kind = "list"

\* C3: no candidate returned by any strategy belongs to the owner of the
\* query intent.
C3_NoOwnIntents ==
    (StrategyCall \/ call.op = "get_matches")
    => \A m \in Returned : RowOf(m).user_id # Query.user_id

\* C4: every candidate returned by any strategy is active and of the post
\* type opposite to the query's.
C4_ActiveAndOpposite ==
    (StrategyCall \/ call.op = "get_matches")
    => \A m \in Returned :
          /\ RowOf(m).is_active
          /\ RowOf(m).post_type = OppositePostType(Query.post_type)

\* ---- the advanced strategy's acceptance ----

\* the rows the advanced strategy scores for the query: fetched, of another
\* owner, and scored without an error
AdvScored ==
    {r \in {AdvancedFetch(Query, store)[i] : i \in 1..Len(AdvancedFetch(Query, store))} :
        /\ r.user_id # Query.user_id
        /\ _calculate_match_scores(Query, r, _extract_parameters(Query)).ok}

\* 0.40 semantic + 0.20 location + 0.30 parameters + 0.10 price of a row, in
\* units of 1e-5
Composite(r) ==
    LET sc == _calculate_match_scores(Query, r, _extract_parameters(Query)).scores
    IN  40 * sc.semantic_similarity + 20 * sc.location_proximity
        + 30 * sc.parameter_overlap + 10 * sc.price_tolerance

\* C5: in the advanced strategy a scored candidate is accepted exactly when
\* its composite score (0.40 semantic + 0.20 location + 0.30 parameters +
\* 0.10 price) is >= 0.75; every returned candidate is an accepted one, and
\* at most 7 are returned (all of the accepted ones when they are 7 or fewer).
C5_AdvancedThreshold ==
    (call.op = "advanced" /\ ~call.fail_adv)
    => LET accepted == {r \in AdvScored : Composite(r) >= 75000}
       IN  /\ Len(matches) <= 7
           /\ Cardinality(Returned) = Len(matches)
           /\ \A m \in Returned :
                 /\ RowOf(m) \in accepted
                 /\ m.composite_score = Round3(Composite(RowOf(m)), 100)
           /\ Len(matches) = Min(7, Cardinality(accepted))

\* C5 witness: seven candidates are returned, one of them scoring exactly
\* 0.75, while a scored candidate below 0.75 and an accepted one are left out
C5_Witness ==
    /\ call.op = "advanced"
    /\ Len(matches) = 7
    /\ \E m \in Returned : Composite(RowOf(m)) = 75000
    /\ \E r \in AdvScored : Composite(r) < 75000
    /\ \E r \in AdvScored :
          /\ Composite(r) >= 75000
          /\ \A m \in Returned : m.intent_id # r.intent_id

\* ---- the order of the returned lists ----

\* a comes before b in the ranking: a higher final score, or the same score
\* and an earlier place in the fetch (the store answers in intent_id order)
RanksBefore(a, b) ==
    \/ FinalScore(a) > FinalScore(b)
    \/ FinalScore(a) = FinalScore(b) /\ a.intent_id < b.intent_id

\* the results of all candidates the advanced / the basic strategy accepts
AdvAccepted ==
    LET data == AdvancedFetch(Query, store)
    IN  {AdvancedResult(Query, data[i]) :
            i \in {k \in 1..Len(data) : AdvancedAccepts(Query, data[k])}}
BasicAccepted ==
    LET data == OppositeFetch(Query, store)
    IN  {BasicResult(Query, data[i]) :
            i \in {k \in 1..Len(data) : BasicAccepts(Query, data[k])}}

\* matches is the first K of the accepted results in ranking order
TopKOf(accepted, K) ==
    /\ Len(matches) = Min(K, Cardinality(accepted))
    /\ Returned \subseteq accepted
    /\ \A x \in accepted \ Returned : \A m \in Returned : RanksBefore(m, x)

\* C6: each strategy's returned list is in non-increasing order of final
\* score with equal scores in fetch order, and the advanced and the basic
\* strategy return the top-K prefix of that order (K = 7 and 10): no accepted
\* candidate left out ranks before a returned one.
C6_RankedTopK ==
    /\ StrategyCall
       => \A i \in 1..Len(matches) : \A j \in 1..Len(matches) :
             i < j => RanksBefore(matches[i], matches[j])
    /\ (call.op = "advanced" /\ ~call.fail_adv) => TopKOf(AdvAccepted, 7)
    /\ (call.op = "basic" /\ ~call.fail_basic) => TopKOf(BasicAccepted, 10)

\* C6 witness: the basic strategy returns ten candidates, some of equal and
\* some of different score, and leaves accepted candidates out
C6_Witness ==
    /\ call.op = "basic"
    /\ Len(matches) = 10
    /\ Cardinality(BasicAccepted) > 10
    /\ \E i \in 1..9 : FinalScore(matches[i]) = FinalScore(matches[i + 1])
    /\ \E i \in 1..9 : FinalScore(matches[i]) > FinalScore(matches[i + 1])

\* C7: every match result returned by any strategy has a final score in
\* [0, 1], whatever the candidate data and timestamps.
C7_ScoreInUnitInterval ==
    (StrategyCall \/ call.op = "get_matches")
    => \A m \in Returned : FinalScore(m) >= 0 /\ FinalScore(m) <= 1000

\* C8: the diversity filter keeps the first candidate of its sorted input,
\* and its output is no longer than the input and no longer than 12; the
\* ML-feature strategy never returns more than 12 candidates.
C8_DiversityBounds ==
    /\ call.op = "diversity"
       => /\ fin # <<>> => (fout # <<>> /\ fout[1] = fin[1])
          /\ Len(fout) <= Len(fin)
          /\ Len(fout) <= 12
    /\ call.op = "ml" => Len(matches) <= 12

\* C8 witness: the filter is given more than 12 sorted candidates and stops
\* at 12, the first of them the top-ranked one
C8_Witness ==
    /\ call.op = "diversity"
    /\ Len(fin) > 12
    /\ Len(fout) = 12
    /\ fout[1] = fin[1]

\* ---- the price tolerance score ----

\* the parsed value of the i-th price of fin, and its distance from the
\* query price fin[1]
ParsedPrice(i) == _extract_price_value(fin[i])
PriceDiff(i) == Abs(ParsedPrice(1) - ParsedPrice(i))
\* the score has been computed for three parseable positive prices
PricesScored ==
    /\ fout # <<>>
    /\ \A i \in 1..3 : fin[i] # NoPrice /\ ParsedPrice(i) > 0
\* the first candidate is beyond the 10% band and the second further away
GrowsPastBand == 10 * PriceDiff(2) > ParsedPrice(1) /\ PriceDiff(2) < PriceDiff(3)

\* C9 as stated: for parseable positive prices the score is 1.0 for
\* identical prices, never negative, and strictly decreasing as the
\* difference grows past the 10% band.
C9_StrictlyDecreasing ==
    PricesScored
    => /\ ParsedPrice(2) = ParsedPrice(1) => fout[1] = 1000
       /\ fout[1] >= 0 /\ fout[2] >= 0
       /\ GrowsPastBand => fout[1] > fout[2]

\* C9 amended: for parseable positive prices the score is 1.0 for identical
\* prices, never negative, and past the 10% band non-increasing as the
\* difference grows: strictly decreasing while the difference is below half
\* of the query price, and 0 from there on.
C9_DecreasingToFloor ==
    PricesScored
    => /\ ParsedPrice(2) = ParsedPrice(1) => fout[1] = 1000
       /\ fout[1] >= 0 /\ fout[2] >= 0
       /\ GrowsPastBand
          => /\ fout[1] >= fout[2]
             /\ 2 * PriceDiff(2) < ParsedPrice(1) => fout[1] > fout[2]
             /\ 2 * PriceDiff(2) >= ParsedPrice(1) => (fout[1] = 0 /\ fout[2] = 0)

\* C9 witness: past the band the nearer candidate scores more than the
\* farther one, which has reached the floor
C9_Witness ==
    /\ PricesScored
    /\ GrowsPastBand
    /\ 2 * PriceDiff(2) < ParsedPrice(1)
    /\ fout[1] > fout[2]
    /\ fout[2] = 0

\* C10: in the advanced strategy, a query with budget 50k and a candidate
\* priced 45k of the same location name give a location score of 1.0 and a
\* price tolerance score of at least 0.5.
C10_BudgetScenario ==
    call.op = "advanced"
    => \A m \in Returned :
          (/\ Query.parsed_data.price = [num |-> 50, unit |-> "k"]
           /\ RowOf(m).parsed_data.price = [num |-> 45, unit |-> "k"]
           /\ Query.location_name \notin {<<>>, NullName}
           /\ RowOf(m).location_name = Query.location_name)
          => /\ m.scores.location = 1000
             /\ m.scores.price >= 500

\* ---- the parameter overlap score ----

\* the weighted attributes, and whether a parameter set carries one
WeightedAttributes == {"category", "sub_category", "brand", "model", "year", "fuel_type"}
HasAttribute(params, a) == IF a = "year" THEN params[a] # 0 ELSE params[a] # ""

\* C11: for all pairs of parameter sets the parameter overlap score lies in
\* [0, 1], and it is exactly 0.5 when no weighted attribute is present on
\* both sides.
C11_ParameterOverlapRange ==
    call.op = "parameter_overlap"
    => /\ fout[1] >= 0 /\ fout[1] <= 1000
       /\ (\A a \in WeightedAttributes :
              ~(HasAttribute(fin[1], a) /\ HasAttribute(fin[2], a)))
          => fout[1] = 500

\* C11 witness: both sides carry attributes, none of them the same one, and
\* the score is 0.5
C11_Witness ==
    /\ call.op = "parameter_overlap"
    /\ HasAttribute(fin[1], "brand") /\ HasAttribute(fin[1], "year")
    /\ HasAttribute(fin[2], "category") /\ HasAttribute(fin[2], "model")
    /\ \A a \in WeightedAttributes :
          ~(HasAttribute(fin[1], a) /\ HasAttribute(fin[2], a))
    /\ fout = <<500>>

\* ---- the distance-to-score mappings ----

\* C12: each distance-to-score mapping is non-increasing in the distance;
\* the advanced strategy's coordinate mode gives 1.0 for d <= 10 km, 0.8 for
\* 10 < d <= 20, 0.5 for 20 < d <= 50 and 0.2 beyond; the basic matcher's
\* helper gives 1.0 within 5 km and 0.0 beyond 50 km.
C12_DistanceBands ==
    call.op = "distance_score"
    => LET d == fin[1]
           unit == DistanceUnit
       IN  /\ fin[1] <= fin[2]
              => /\ fout.advanced[1] >= fout.advanced[2]
                 /\ fout.basic[1] >= fout.basic[2]
           /\ d <= 10 * unit => fout.advanced[1] = 1000
           /\ (10 * unit < d /\ d <= 20 * unit) => fout.advanced[1] = 800
           /\ (20 * unit < d /\ d <= 50 * unit) => fout.advanced[1] = 500
           /\ 50 * unit < d => fout.advanced[1] = 200
           /\ d <= 5 * unit => fout.basic[1] = 1000
           /\ 50 * unit < d => fout.basic[1] = 0

\* C12 witness: a distance of exactly 10 km scores 1.0 and the next larger
\* distance 0.8 in the coordinate mode, and both score 0.8 in the helper
C12_Witness ==
    /\ call.op = "distance_score"
    /\ fin[1] = 10 * DistanceUnit /\ fin[2] = fin[1] + 1
    /\ fout.advanced = <<1000, 800>>
    /\ fout.basic[1] = 800

\* ---- the basic strategy's acceptance ----

\* C13: the basic strategy never accepts a candidate whose location is in a
\* different metro area from the query's and whose text shares no word with
\* the query's, whether or not either side carries an embedding.
C13_UnrelatedNotAccepted ==
    (call.op = "basic" /\ ~call.fail_basic)
    => \A m \in Returned :
          ~(/\ CityGroup(Query.location_name) # 0
            /\ CityGroup(RowOf(m).location_name) # 0
            /\ CityGroup(Query.location_name) # CityGroup(RowOf(m).location_name)
            /\ Query.raw_query \intersect RowOf(m).raw_query = {})

\* ---- the composite score ----

\* C14 (as stated): for four component scores in [0, 1] the value computed
\* by _calculate_composite_score is at least 0 and at most 1.0, and the four
\* weights add up to exactly 1.0.
C14_CompositeInUnitInterval ==
    call.op = "composite_score"
    => /\ DLeq(DZero, fout.double) /\ DLeq(fout.double, DOne)
       /\ (\A c \in DOMAIN fin : fin[c] = 4)
          => (fout.double = WeightSumDouble /\ WeightSumDouble = DOne)

\* C14 (amended): for four component scores in [0, 1] the value computed by
\* _calculate_composite_score is at least 0 and at most 1 + 2^-52, the
\* double the four weights add up to and the value for four scores of 1.0;
\* in decimal arithmetic the weights add up to exactly 1.0 and the value is
\* in [0, 1].
C14_CompositeWithinRounding ==
    /\ W_semantic + W_location + W_parameters + W_price = 100
    /\ call.op = "composite_score"
       => /\ DLeq(DZero, fout.double)
          /\ DLeq(fout.double, [hi |-> 2^30, lo |-> 64])
          /\ fout.decimal \in 0..(100 * Milli)
          /\ (\A c \in DOMAIN fin : fin[c] = 4)
             => (fout.double = WeightSumDouble /\ fout.decimal = 100 * Milli)

\* C14 witness: the composite of four scores of 1.0 has been computed and is
\* the double after 1.0
C14_Witness ==
    /\ call.op = "composite_score"
    /\ \A c \in DOMAIN fin : fin[c] = 4
    /\ fout.double = [hi |-> 2^30, lo |-> 64]
    /\ fout.decimal = 100 * Milli

\* ---- cosine similarity ----

\* the double 1.0
DoubleOne == [m |-> BigPow2(52), e |-> -52]

\* C15 (as stated): compute_similarity gives the same value for (a, b) and
\* (b, a) for embeddings of equal length, and exactly 1.0 for (a, a) with a
\* nonzero.
C15_SymmetricAndSelfOne ==
    call.op = "similarity"
    => /\ fout[1] = fout[2]
       /\ (fin[1] = fin[2] /\ Dot(fin[1], fin[1]) # 0)
          => (fout[1].sign = 1 /\ fout[1].v = DoubleOne)

\* C15 (amended): compute_similarity gives the same value for (a, b) and
\* (b, a) for embeddings of equal length; for (a, a) with a nonzero the value
\* is 1.0 up to the rounding of the square root, the product and the
\* quotient: it differs from 1.0 by at most 2^-51.
C15_SymmetricAndSelfNearOne ==
    call.op = "similarity"
    => /\ fout[1] = fout[2]
       /\ (fin[1] = fin[2] /\ Dot(fin[1], fin[1]) # 0)
          => /\ fout[1].sign = 1
             /\ \/ /\ fout[1].v.e = -52
                   /\ BigLeq(fout[1].v.m, BigAddC(BigPow2(52), <<2>>, 0))
                \/ /\ fout[1].v.e = -53
                   /\ BigLeq(BigPow2(53), BigAddC(fout[1].v.m, <<4>>, 0))

\* C15 witness: the similarity of [1, 1, 0, ...] with itself has been
\* computed and is 0.9999999999999998, two units of 2^-53 below 1.0
C15_Witness ==
    /\ call.op = "similarity"
    /\ fin[1] = fin[2]
    /\ Dot(fin[1], fin[1]) = 2
    /\ fout[1] = fout[2]
    /\ fout[1].v.e = -53
    /\ BigAddC(fout[1].v.m, <<2>>, 0) = BigPow2(53)


\* ---- concurrent ML requests ----

\* the text similarities of a request served alone by a fresh service
AloneSimilarities(all_texts) == _compute_text_similarities(Unfitted, all_texts).similarities

C17_ExpiredNeverReturned ==
    (call.op \in {"ml", "get_matches"})
    => \A m \in Returned :
          /\ RowOf(m).is_active
          /\ RowOf(m).expiry_date[1] >= call.now


\* ---- malformed fields ----

\* a geometry text is given but is not a well-formed POINT
Malformed(g) == g.kind \in {"hex", "badpoint"}

\* the query or the candidate has a price that is absent or has no number
PriceUnusable(row) ==
    \/ _extract_parameters(Query).price = NoPrice
    \/ _extract_parameters(row).price = NoPrice
    \/ _extract_price_value(_extract_parameters(Query).price) < 0
    \/ _extract_price_value(_extract_parameters(row).price) < 0

\* C18: a malformed geometry text gives the default distance of 50 km (a
\* location score of 0.5), an unparseable or absent price a price score of
\* 0.5, an unparseable timestamp a temporal score of 0.6 for every candidate
\* of the batch; the candidate is scored and returned all the same, by the
\* strategy that was called and not by a fallback.
C18_MalformedDefaults ==
    /\ (call.op = "advanced" /\ ~call.fail_adv)
       => /\ \A m \in Returned :
                /\ (/\ Query.location # NoGeometry
                    /\ RowOf(m).location # NoGeometry
                    /\ Malformed(Query.location) \/ Malformed(RowOf(m).location))
                   => /\ _calculate_distance(Query.location, RowOf(m).location) = Km(50)
                      /\ m.scores.location = 500
                /\ PriceUnusable(RowOf(m)) => m.scores.price = 500
          /\ \E i \in 1..Len(matches) : matches[i].intent_id = 2
    /\ (call.op = "ml" /\ ~call.fail_ml /\ store[2].created_at = <<>>)
       => /\ \A m \in Returned :
                /\ "temporal_compatibility" \in DOMAIN m
                /\ m.temporal_compatibility = 600
          /\ \E i \in 1..Len(matches) : matches[i].intent_id = 2

\* C18 witness: the candidate has a POINT that float() rejects, a price
\* without a number and an unparseable timestamp; the ML-feature strategy
\* has returned it with a temporal score of 0.6, and the advanced strategy
\* returns it with a location score and a price score of 0.5
C18_Witness ==
    /\ call.op = "ml" /\ ~call.fail_ml
    /\ store[1].location = Point(1290)
    /\ store[2].location = BadPoint
    /\ store[2].parsed_data.price.num < 0 /\ store[2].parsed_data.price # NoPrice
    /\ store[2].created_at = <<>>
    /\ Len(matches) = 1
    /\ matches[1].temporal_compatibility = 600
    /\ LET adv == find_advanced_matches(store[1], store, FALSE).list
       IN  /\ Len(adv) = 1
           /\ adv[1].scores.location = 500
           /\ adv[1].scores.price = 500


\* ---- the order of the strategies ----

\* the advanced strategy met an error: its candidate fetch raised, or the
\* lookup of the inverse intent did
AdvancedErred == call.fail_adv \/ _extract_parameters(Query).intent = ListIntent

\* the strategies that ran for the request, in order: the chain of the
\* endpoint, and the basic strategy when the ML-feature matcher fell back on it
AttemptedStrategies ==
    LET chain == MatchChain(Query, store, call.now, call.fail_adv, call.fail_ml,
                            call.fail_basic)
    IN  IF "ml" \in {chain.attempted[i] : i \in 1..Len(chain.attempted)}
           /\ MLRaises(Query, store, call.fail_ml)
        THEN chain.attempted \o <<"basic">>
        ELSE chain.attempted

\* C19: the strategies run in the order advanced, ML, basic; the ML strategy
\* runs exactly when the advanced one met an error, the basic one exactly
\* when the ML strategy ran and met an error.
C19_FallbackOrder ==
    call.op = "get_matches"
    => /\ AttemptedStrategies \in {<<"advanced">>, <<"advanced", "ml">>,
                                   <<"advanced", "ml", "basic">>}
       /\ Len(AttemptedStrategies) >= 2 <=> AdvancedErred
       /\ Len(AttemptedStrategies) = 3
          <=> (AdvancedErred /\ MLRaises(Query, store, call.fail_ml))


\* ---- the acceptance threshold of the ML-feature and basic strategies ----

\* C20: in the ML and the basic strategy a candidate is returned exactly
\* when its combined score is at least 0.30; a candidate scoring exactly
\* 0.30 is returned.
C20_ThresholdInclusive ==
    /\ (call.op = "basic" /\ ~call.fail_basic)
       => \A r \in {store[i] : i \in 2..Len(store)} :
             (\E m \in Returned : m.intent_id = r.intent_id)
             <=> BasicCombined(Query, r) >= BasicThreshold * 100
    /\ (call.op = "ml" /\ ~MLRaises(Query, store, call.fail_ml))
       => LET data == OppositeFetch(Query, store)
          IN  \A i \in 1..Len(data) :
                 (\E m \in Returned : m.intent_id = data[i].intent_id)
                 <=> MLCombined(MLScores(Query, data, i, call.now))
                        >= MLThreshold * 10 * Milli


\* ---- the cut of the ML-feature strategy ----

\* the ML-feature call being answered went through its try block
MLAnswered == call.op = "ml" /\ ~MLRaises(Query, store, call.fail_ml)

\* the rank of a result in the sorted accepted candidates
RankIn(sorted, m) == CHOOSE k \in 1..Len(sorted) : sorted[k] = m

\* C21 (as stated): the ML-feature strategy cuts its sorted accepted
\* candidates to the top 15 before the diversity filter, so no candidate
\* ranked below 15th among them is returned.
C21_CutBeforeDiversity ==
    MLAnswered
    => LET sorted == MLSorted(Query, store, call.now)
       IN  \A m \in Returned : \E k \in 1..Min(15, Len(sorted)) : sorted[k] = m

\* C21 (amended): the diversity filter runs on all sorted accepted
\* candidates and the cut to 15 follows it.  The returned list is a
\* subsequence of the sorted one in its order, and a candidate is left out
\* only by the filter: it is too similar to a returned candidate ranked
\* above it, or twelve candidates ranked above it are returned; its own rank
\* plays no part.
C21_DiversityBeforeCut ==
    MLAnswered
    => LET sorted == MLSorted(Query, store, call.now)
           rank == [i \in 1..Len(matches) |-> RankIn(sorted, matches[i])]
       IN  /\ \A i \in 1..Len(matches) : \E k \in 1..Len(sorted) : sorted[k] = matches[i]
           /\ \A i \in 1..Len(matches) : \A j \in 1..Len(matches) :
                 i < j => rank[i] < rank[j]
           /\ \A k \in 1..Len(sorted) :
                 sorted[k] \notin Returned
                 => /\ Len(sorted) > 5
                    /\ \/ \E i \in 1..Len(matches) :
                             rank[i] < k /\ TooSimilar(sorted[k], matches[i])
                       \/ Len(matches) = 12 /\ rank[12] < k

\* C21 witness: more than 15 candidates are accepted, near-duplicates among
\* them are dropped, and a candidate ranked below 15th is returned
C21_Witness ==
    /\ MLAnswered
    /\ LET sorted == MLSorted(Query, store, call.now)
       IN  /\ Len(sorted) > 15
           /\ Len(matches) < Len(sorted)
           /\ \E m \in Returned : RankIn(sorted, m) > 15


\* ---- the diversity filter ----

\* the word-set overlap of two candidates exceeds 0.7
OverlapExceeds(a, b) ==
    10 * Cardinality(a.raw_query \intersect b.raw_query)
        > 7 * Cardinality(a.raw_query \union b.raw_query)

\* the places of the filter's input fin whose candidate is in its output fout
KeptPlaces == {k \in 1..Len(fin) : \E i \in 1..Len(fout) : fout[i] = fin[k]}

\* C22: an input of 5 or fewer candidates is returned unchanged.  For a
\* longer input the output is the input restricted to the kept places, in
\* the input's order; the first candidate is kept, and a later one is kept
\* exactly when fewer than 12 are kept before it and its overlap with none
\* of them exceeds 0.7; every two kept candidates have overlap at most 0.7.
C22_DiversityFilter ==
    call.op = "diversity"
    => /\ Len(fin) <= 5 => fout = fin
       /\ Len(fin) > 5
          => /\ fout = SelectSeqBy(fin, KeptPlaces)
             /\ \A k \in 1..Len(fin) :
                   k \in KeptPlaces
                   <=> \/ k = 1
                       \/ /\ Cardinality({j \in KeptPlaces : j < k}) < 12
                          /\ \A j \in KeptPlaces : j < k => ~OverlapExceeds(fin[k], fin[j])
             /\ \A i \in 1..Len(fout) : \A j \in 1..Len(fout) :
                   i # j => ~OverlapExceeds(fout[i], fout[j])

\* C22 witness: of more than 5 candidates one is dropped for its overlap
\* with a kept one, and a candidate ranked after the dropped one is kept
C22_Witness ==
    /\ call.op = "diversity"
    /\ Len(fin) > 5
    /\ \E k \in 1..Len(fin) :
          /\ k \notin KeptPlaces
          /\ \E j \in KeptPlaces : j < k /\ OverlapExceeds(fin[k], fin[j])
          /\ \E j \in KeptPlaces : j > k


---------------------------------------------------------------------------
(* C23: the price parser scales by the unit word *)

\* the value a price string denotes: its first numeric token times 100,000
\* for lakh/lac and times 1,000 for k/thousand
Denoted(p) ==
    IF p.unit \in {"lakh", "lac"} THEN p.num * 100000
    ELSE IF p.unit \in {"k", "thousand"} THEN p.num * 1000
    ELSE p.num

\* C23: a parsed price string gives its first numeric token scaled by
\* 100,000 for lakh/lac and by 1,000 for k/thousand, so that "50k" parses to
\* the value of "50000" and "2 lakh" to 200,000.
C23_PriceScaled ==
    (fout # <<>> /\ fin[1].num >= 0) => fout[1] = Denoted(fin[1])

---------------------------------------------------------------------------
(* C24: the award of each attribute in the parameter overlap score *)

\* the decimal digits of n > 0, as str(n) writes them
RECURSIVE Digits(_)
Digits(n) == IF n < 10 THEN <<n>> ELSE Append(Digits(n \div 10), n % 10)

\* str(a) in str(b), for two attribute values
ValueIn(param, a, b) ==
    IF param = "year"
    THEN \E i \in 1..Len(Digits(b)) : \E j \in i..Len(Digits(b)) :
            SubSeq(Digits(b), i, j) = Digits(a)
    ELSE SubstrOf(a, b)

\* the award of one attribute present on both sides, in thousandths of
\* weight units; yearToo: the substring rule applies to the year as well
RuleAward(param, weight, uv, mv, yearToo) ==
    IF uv = mv THEN weight * 10
    ELSE IF param = "year" /\ Abs(uv - mv) <= 1 THEN weight * 8
    ELSE IF (yearToo \/ param # "year")
            /\ (ValueIn(param, uv, mv) \/ ValueIn(param, mv, uv))
         THEN weight * 6
    ELSE 0

\* awarded sum over summed weights of the attributes present on both sides
RuleScore(up, mp, yearToo) ==
    LET both == {i \in 1..Len(param_weights) :
                    /\ HasAttribute(up, param_weights[i][1])
                    /\ HasAttribute(mp, param_weights[i][1])}
        Award(i) == RuleAward(param_weights[i][1], param_weights[i][2],
                              up[param_weights[i][1]], mp[param_weights[i][1]],
                              yearToo)
        awarded == SumSeq([i \in 1..Len(param_weights) |->
                              IF i \in both THEN Award(i) ELSE 0])
        weights == SumSeq([i \in 1..Len(param_weights) |->
                              IF i \in both THEN param_weights[i][2] ELSE 0])
    IN  IF weights > 0 THEN (awarded * 100) \div weights ELSE 500

\* C24: each weighted attribute present on both sides is awarded its full
\* weight on an exact match; otherwise, for year, 80% when the years are at
\* most 1 apart; otherwise 60% when one value is a substring of the other,
\* for every attribute, year included; otherwise 0; the score is the awarded
\* sum over the summed weights of the attributes present on both sides.
C24_AwardsYearSubstring ==
    call.op = "parameter_overlap" => fout[1] = RuleScore(fin[1], fin[2], TRUE)

\* C24 as the code has it: the substring rule applies to every attribute but
\* the year; years more than 1 apart are awarded 0.
C24_AwardsPerAttribute ==
    call.op = "parameter_overlap" => fout[1] = RuleScore(fin[1], fin[2], FALSE)

\* C24 witness: scored parameter sets with the category equal, the
\* sub-category contained in the other side's, and the year written with two
\* digits on one side and with four on the other: 300 + 120 + 0 of 600
C24_Witness ==
    /\ call.op = "parameter_overlap"
    /\ fin[1].category = "product" /\ fin[2].category = "product"
    /\ fin[1].sub_category = "phone" /\ fin[2].sub_category = "smartphone"
    /\ fin[1].year = 20 /\ fin[2].year = 2020
    /\ fin[1].brand = "" /\ fin[1].model = "" /\ fin[1].fuel_type = ""
    /\ fout = <<700>>

---------------------------------------------------------------------------
(* C25: location names that are empty or missing *)

NoNameGiven(name) == name \in {<<>>, NullName}

\* C25: in the name-based location scoring of every strategy an empty or
\* missing location name on either side gives the neutral 0.5, and the
\* scoring does not fail: the ML-feature strategy answers by itself unless
\* its store query fails.
C25_EmptyNameNeutral ==
    /\ call.op = "advanced"
       => \A m \in Returned :
             (NoNameGiven(Query.location_name) \/ NoNameGiven(RowOf(m).location_name))
             => m.scores.location = 500
    /\ (call.op = "ml" /\ ~call.fail_ml)
       => /\ ~MLRaises(Query, store, FALSE)
          /\ \A m \in Returned :
                (NoNameGiven(Query.location_name) \/ NoNameGiven(RowOf(m).location_name))
                => m.location_score = 500
    /\ call.op = "basic"
       => \A m \in Returned :
             (NoNameGiven(Query.location_name) \/ NoNameGiven(RowOf(m).location_name))
             => m.combined_score = Round3(m.similarity * 7 + 500 * 3, 10)

---------------------------------------------------------------------------
(* C26: the temporal compatibility score *)

\* recency_score of a returned candidate as the ML-feature strategy computes
\* it from the host's clock, in thousandths
RecencyOf(m) == ((30 - (call.now - RowOf(m).created_at[1])) * Milli) \div 30

\* C26: for all parseable creation timestamps of query and candidate, a
\* candidate created later than the current time included, the recency and
\* the temporal score 0.4 recency + 0.3 mutual + 0.3 urgency of every
\* candidate the ML-feature strategy returns lie in [0, 1].
C26_TemporalInUnitInterval ==
    (MLAnswered /\ Query.created_at # <<>>)
    => \A m \in Returned :
          RowOf(m).created_at # <<>>
          => /\ Max(0, RecencyOf(m)) <= 1000
             /\ m.temporal_compatibility >= 0
             /\ m.temporal_compatibility <= 1000

---------------------------------------------------------------------------
(* C27: cosine similarity of degenerate embeddings *)

AllZero(e) == \A i \in 1..Len(e) : e[i] = 0

\* C27: compute_similarity returns 0.0 and does not raise when a vector is
\* empty or all-zero or when the two vectors differ in length, and a
\* candidate whose embedding differs in length from the query's is still
\* scored, with semantic similarity 0.0.
C27_DegenerateIsZero ==
    call.op = "match_scores"
    => /\ fout[1].ok
       /\ (AllZero(fin[1]) \/ AllZero(fin[2]) \/ Len(fin[1]) # Len(fin[2]))
          => fout[1].v = 0
       /\ fout[2].ok
       /\ Len(fin[1]) # Len(fin[2]) => fout[2].scores.semantic_similarity = 0

---------------------------------------------------------------------------
(* C28: the advanced strategy scores each candidate on its own *)

\* what the advanced strategy returns for the query when row r is the only
\* row fetched: <<>> when r is rejected, r's result otherwise
ScoredAlone(r) == find_advanced_matches(Query, <<r>>, FALSE).list

RECURSIVE EachAlone(_)
\* the results of the rows of a snapshot, each scored on its own, in the
\* order of the snapshot
EachAlone(rows) ==
    IF rows = <<>> THEN <<>>
    ELSE ScoredAlone(Head(rows)) \o EachAlone(Tail(rows))

---------------------------------------------------------------------------
(* C29: the results against the match response schema *)

\* C29: every match result of each of the three strategies carries the
\* fields MatchResponse requires, the final score combined_score among them,
\* so a match request whose chain ends with a non-empty list returns that
\* list and not an error.
C29_ResultsFitSchema ==
    /\ StrategyCall => \A m \in Returned : "combined_score" \in DOMAIN m
    /\ (call.op = "get_matches" /\ matches # <<>>)
       => outcome = [kind |-> "list", list |-> matches]

---------------------------------------------------------------------------
(* C30: intent inversion *)

\* the query's intent verb as the advanced strategy reads it
QueryVerb == _extract_parameters(Query).intent

\* the row names the verb: in its text or as its interpreted intent
Carries(r, verb) == TextHas(r.raw_query, verb) \/ r.parsed_data.intent = verb

\* inversion is an involution without fixed points on the ten verbs
InversionPairsUp ==
    \A v \in DOMAIN INTENT_INVERSIONS :
        /\ InverseIntent(v) \in DOMAIN INTENT_INVERSIONS
        /\ InverseIntent(InverseIntent(v)) = v
        /\ InverseIntent(v) # v

\* C30: intent inversion is an involution without fixed points on the ten
\* verbs of the table, and the advanced strategy always retrieves its
\* candidates by a verb that is the inverse of the query's intent verb and
\* never by the query's own verb.
C30_AlwaysByInverse ==
    /\ InversionPairsUp
    /\ call.op = "advanced"
       => \A m \in Returned :
             \E verb \in IntentVerbs \ {QueryVerb} : Carries(RowOf(m), verb)
                                                     /\ verb = InverseIntent(QueryVerb)

\* C30 as the code has it: a query verb of the table retrieves by its
\* inverse, any other verb retrieves by itself.
C30_ByInverseOfTableVerb ==
    /\ InversionPairsUp
    /\ call.op = "advanced"
       => \A m \in Returned :
             IF QueryVerb \in DOMAIN INTENT_INVERSIONS
             THEN /\ Carries(RowOf(m), INTENT_INVERSIONS[QueryVerb])
                  /\ INTENT_INVERSIONS[QueryVerb] # QueryVerb
             ELSE Carries(RowOf(m), QueryVerb)

\* C30 witness: a 'want' query is answered with a candidate whose
\* interpreted intent is 'have' and whose text names no verb
C30_Witness ==
    /\ call.op = "advanced"
    /\ QueryVerb = "want"
    /\ Len(matches) = 1
    /\ RowOf(matches[1]).parsed_data.intent = "have"
    /\ RowOf(matches[1]).raw_query = {"iphone"}

===========================================================================
